---- MODULE Spec2Model ----
(***************************************************************************)
(* Authentication and session-lifecycle engine of the auth service:        *)
(* AuthService (services), the HTTP handlers that call it (handlers), the  *)
(* bearer-token middleware (middleware) and the two repositories the       *)
(* service talks to.                                                       *)
(*                                                                         *)
(* Time is counted in units of 15 minutes (the shortest duration the code  *)
(* uses), so the durations below are exact.  User ids, session ids and     *)
(* opaque tokens are naturals handed out by counters (the code draws       *)
(* UUIDs and 32 random bytes); 0 stands for the empty string.              *)
(***************************************************************************)
EXTENDS Integers, FiniteSets, Sequences, TLC

\* ---------------------------------------------------------------- bounds
\* Spec: two users, the clock stopped
MaxUsers == 2
MaxSessions == 2
MaxResetTokens == 1
MaxEmailTokens == 2
\* SpecClock: one user, the clock running
ClockUsers == 1
ClockSessions == 1
ClockResetTokens == 1
ClockEmailTokens == 1
MaxTicks == 2
\* SpecFault: one user, the clock stopped, repository calls may fail
FaultUsers == 1
FaultSessions == 1
FaultResetTokens == 1
FaultEmailTokens == 1
\* SpecRace: concurrent ResetPassword invocations over one user
MaxProcs == 2
RaceUsers == 1
RaceSessions == 1
RaceResetTokens == 1
RaceEmailTokens == 1
\* SpecInFlight: Register and RefreshToken invocations in flight
FlightUsers == 2
FlightSessions == 1
\* SpecScenario: the waits of the scripted client
ScnTicks == 3
\* SpecGateway: one user behind the router, anonymous sessions, the clock stopped
GwUsers == 1
GwSessions == 1
GwResetTokens == 1
GwEmailTokens == 1
MaxAnon == 1
\* the sub-second parts a clock read may return, in ticks of the clock
MaxFrac == 1

\* ------------------------------------------------- program constants
\* models.Default*Duration, in units of 15 minutes
DefaultSessionDuration == 1
DefaultRefreshDuration == 672
DefaultResetTokenDuration == 4
DefaultVerifyTokenDuration == 96
DefaultAnonymousDuration == 96

\* HTTP status codes used by the handlers and the middleware
StatusOK == 200
StatusCreated == 201
StatusBadRequest == 400
StatusUnauthorized == 401
StatusForbidden == 403
StatusNotFound == 404
StatusConflict == 409
StatusInternalServerError == 500

TokenTypeAccess == "access"
TokenTypeRefresh == "refresh"
TokenTypeAnonymous == "anonymous"

\* services: the domain errors; Internal is any error wrapped by fmt.Errorf
ErrInvalidCredentials == "invalid credentials"
ErrUserAlreadyExists == "user already exists"
ErrUserNotVerified == "user not verified"
ErrUserDisabled == "user disabled"
ErrInvalidToken == "invalid token"
ErrTokenExpired == "token expired"
ErrSessionNotFound == "session not found"
Internal == "internal"
Nil == "nil"

\* repositories: the errors of the repository interface
RepoOK == "ok"
RepoUserNotFound == "repo: user not found"
RepoSessionNotFound == "repo: session not found"
RepoTokenNotFound == "repo: token not found"
RepoTokenExpired == "repo: token expired"

\* ------------------------------------------------------------- inputs
Emails == {"alice@example.com", "bob@example.com"}
Passwords == {"Secret123!", "Other456!"}

VARIABLES
    now,          \* time.Now().UTC()
    ticks,        \* how often the clock has advanced
    users,        \* User Repository: user id -> user record with its password hash
    nextUid,      \* next fresh user id
    emailTokens,  \* User Repository: sequence of EmailVerificationToken, token = index
    resetTokens,  \* User Repository: sequence of PasswordResetToken, token = index
    sessions,     \* Session Repository: session id -> Session
    nextSid,      \* next fresh session id
    issued,       \* every JWT the service has signed so far
    last,         \* the last request and its response
    procs,        \* SpecRace: the ResetPassword invocations in flight
    scn,          \* SpecScenario: how far the scripted client has come
    anon,         \* Session Repository: sequence of AnonymousSession, id = index
    http          \* SpecGateway: the last request through the router and its response

vars == <<now, ticks, users, nextUid, emailTokens, resetTokens, sessions, nextSid, issued, last,
          procs, scn, anon, http>>

\* ---------------------------------------------------------- JWT codec
Secret == "HS256:JWTSecret"
Forged == "HS256:other"

NoToken == [typ |-> "", sub |-> 0, email |-> "", sid |-> 0, iat |-> 0, exp |-> 0, sig |-> ""]

\* jwt.Parse with the HMAC key function: the signature verifies against the
\* service secret and exp has not elapsed (valid while now < exp)
JwtValid(t, at) == t.sig = Secret /\ at < t.exp

generateAccessToken(u, sessionID, at) ==
    [typ |-> TokenTypeAccess, sub |-> u, email |-> users[u].email, sid |-> sessionID,
     iat |-> at, exp |-> at + DefaultSessionDuration, sig |-> Secret]

generateRefreshToken(userID, sessionID, at) ==
    [typ |-> TokenTypeRefresh, sub |-> userID, email |-> "", sid |-> sessionID,
     iat |-> at, exp |-> at + DefaultRefreshDuration, sig |-> Secret]

\* the type check of parseRefreshToken
RefreshTypeOK(t) == t.typ = TokenTypeRefresh

parseRefreshToken(t, at) ==
    IF ~JwtValid(t, at) THEN [err |-> ErrInvalidToken, userID |-> 0, sessionID |-> 0]
    ELSE IF ~RefreshTypeOK(t) THEN [err |-> ErrInvalidToken, userID |-> 0, sessionID |-> 0]
    ELSE IF t.sub = 0 \/ t.sid = 0 THEN [err |-> ErrInvalidToken, userID |-> 0, sessionID |-> 0]
    ELSE [err |-> Nil, userID |-> t.sub, sessionID |-> t.sid]

\* tokens signed with another key: whatever they claim, the signature check
\* comes first, so one of each type stands for all of them
ForgedTokens ==
    {[typ |-> ty, sub |-> 1, email |-> "", sid |-> 1, iat |-> now,
      exp |-> now + DefaultRefreshDuration, sig |-> Forged] :
        ty \in {TokenTypeAccess, TokenTypeRefresh}}

\* what a client can put in a request: a token the service signed, or a forged one
Presentable == issued \cup ForgedTokens

\* --------------------------------------------------- Authorization header
NoHeader == [scheme |-> "", tok |-> NoToken]
Bearer(t) == [scheme |-> "Bearer", tok |-> t]
Headers == {NoHeader, [scheme |-> "Basic", tok |-> NoToken]} \cup {Bearer(t) : t \in Presentable}

\* a bearer check that validates a token only when one is presented and lets
\* every other request through as the first user
AuthMiddlewareLax(h, at) ==
    IF h.scheme # "Bearer" THEN [ok |-> TRUE, status |-> StatusOK, body |-> "", userID |-> 1]
    ELSE IF ~JwtValid(h.tok, at) THEN
        [ok |-> FALSE, status |-> StatusUnauthorized, body |-> "invalid or expired token", userID |-> 0]
    ELSE IF h.tok.sub = 0 THEN
        [ok |-> FALSE, status |-> StatusUnauthorized, body |-> "missing user ID in token", userID |-> 0]
    ELSE [ok |-> TRUE, status |-> StatusOK, body |-> "", userID |-> h.tok.sub]

\* middleware.AuthMiddleware: the response it short-circuits with, or the
\* user id it puts in the request context
AuthMiddleware(h, at) ==
    IF h.scheme = "" THEN
        [ok |-> FALSE, status |-> StatusUnauthorized, body |-> "missing authorization header", userID |-> 0]
    ELSE IF h.scheme # "Bearer" THEN
        [ok |-> FALSE, status |-> StatusUnauthorized, body |-> "invalid authorization format", userID |-> 0]
    ELSE IF ~JwtValid(h.tok, at) THEN
        [ok |-> FALSE, status |-> StatusUnauthorized, body |-> "invalid or expired token", userID |-> 0]
    ELSE IF h.tok.sub = 0 THEN
        [ok |-> FALSE, status |-> StatusUnauthorized, body |-> "missing user ID in token", userID |-> 0]
    ELSE [ok |-> TRUE, status |-> StatusOK, body |-> "", userID |-> h.tok.sub]

\* ------------------------------------------------------ credential hasher
\* bcrypt: the hash is not the password, and it verifies exactly the password
\* it was made from
hashPassword(password) == [alg |-> "bcrypt", of |-> password]
CompareHashAndPassword(hash, password) == hash.alg = "bcrypt" /\ hash.of = password

\* ------------------------------------------------------- User Repository
UserByEmail(email) == {u \in DOMAIN users : users[u].email = email}

GetUserByEmail(email) ==
    IF UserByEmail(email) = {} THEN [err |-> RepoUserNotFound, id |-> 0]
    ELSE [err |-> RepoOK, id |-> CHOOSE u \in UserByEmail(email) : TRUE]

GetUser(userID) ==
    IF userID \in DOMAIN users THEN [err |-> RepoOK, id |-> userID]
    ELSE [err |-> RepoUserNotFound, id |-> 0]

VerifyStoredToken(store, token, at) ==
    IF token \notin DOMAIN store THEN [err |-> RepoTokenNotFound, userID |-> 0]
    ELSE IF store[token].used THEN [err |-> RepoTokenNotFound, userID |-> 0]
    ELSE IF ~(at < store[token].expiresAt) THEN [err |-> RepoTokenExpired, userID |-> 0]
    ELSE [err |-> RepoOK, userID |-> store[token].userID]

VerifyPasswordResetToken(token, at) == VerifyStoredToken(resetTokens, token, at)
VerifyEmailToken(token, at) == VerifyStoredToken(emailTokens, token, at)

MarkTokenUsed(store, token) ==
    IF token \in DOMAIN store THEN [store EXCEPT ![token].used = TRUE] ELSE store

NewStoredToken(userID, at, duration) ==
    [userID |-> userID, expiresAt |-> at + duration, used |-> FALSE, createdAt |-> at]

UpdatePassword(us, userID, hash) ==
    IF userID \in DOMAIN us THEN [us EXCEPT ![userID].hash = hash] ELSE us

MarkUserVerified(us, userID) ==
    IF userID \in DOMAIN us THEN [us EXCEPT ![userID].isVerified = TRUE] ELSE us

UpdateLastLogin(us, userID, at) ==
    IF userID \in DOMAIN us THEN [us EXCEPT ![userID].lastLoginAt = at] ELSE us

\* ---------------------------------------------------- Session Repository
GetSession(sessionID) ==
    IF sessionID \in DOMAIN sessions THEN [err |-> RepoOK, id |-> sessionID]
    ELSE [err |-> RepoSessionNotFound, id |-> 0]

DeactivateSession(ss, sessionID) ==
    IF sessionID \in DOMAIN ss THEN [ss EXCEPT ![sessionID].isActive = FALSE] ELSE ss

DeactivateUserSessions(ss, userID) ==
    [s \in DOMAIN ss |-> IF ss[s].userID = userID THEN [ss[s] EXCEPT !.isActive = FALSE] ELSE ss[s]]

\* ------------------------------------------------------------- models
\* Session.IsExpired: time.Now().UTC().After(s.ExpiresAt)
IsExpired(s, at) == at > s.expiresAt

\* a session that lives only as long as an access token
NewSessionShortLived(userID, at) ==
    [userID |-> userID, createdAt |-> at, expiresAt |-> at + DefaultSessionDuration, isActive |-> TRUE]

\* SessionCreateRequest -> Session, as createSession builds it
NewSession(userID, at) ==
    [userID |-> userID, createdAt |-> at, expiresAt |-> at + DefaultRefreshDuration, isActive |-> TRUE]

\* ------------------------------------------------------------ responses
NoReply ==
    [op |-> "", err |-> Nil, status |-> 0, email |-> "", password |-> "", uid |-> 0, sid |-> 0,
     hdr |-> NoHeader, tok |-> NoToken, otok |-> 0, at |-> NoToken, rt |-> NoToken, fail |-> {},
     newPassword |-> "", stale |-> FALSE, body |-> ""]

\* no request has come through the router yet
NoExchange == [method |-> "", path |-> "", trace |-> <<>>, status |-> 0, headers |-> {}, body |-> ""]

\* an invocation in flight: where it stands, its arguments (the reset token and
\* new password of a ResetPassword, the email and password of a Register, the
\* refresh token of a RefreshToken), the user id it read or created, and its
\* result once it has returned
Procs == 1 .. MaxProcs
Idle == [pc |-> "idle", token |-> 0, password |-> "", userID |-> 0, err |-> Nil,
         email |-> "", tok |-> NoToken]

Init ==
    /\ now = 0
    /\ ticks = 0
    /\ users = <<>>
    /\ nextUid = 1
    /\ emailTokens = <<>>
    /\ resetTokens = <<>>
    /\ sessions = <<>>
    /\ nextSid = 1
    /\ issued = {}
    /\ last = NoReply
    /\ procs = [p \in Procs |-> Idle]
    /\ scn = [step |-> 0, at |-> NoToken, rt |-> NoToken]
    /\ anon = <<>>
    /\ http = NoExchange

Reply(op, err, status) == [NoReply EXCEPT !.op = op, !.err = err, !.status = status]

\* --------------------------------------------------------------- Register
RegisterCalls == {"GetUserByEmail", "CreateUser", "CreateEmailVerificationToken"}

\* handlers.Register: the status for each service error
RegisterStatus(err) ==
    IF err = Nil THEN StatusCreated
    ELSE IF err = ErrUserAlreadyExists THEN StatusConflict
    ELSE StatusInternalServerError

\* a registration that stores the user as already verified
NewUserVerified(email, password) ==
    [email |-> email, hash |-> hashPassword(password), isVerified |-> TRUE, isActive |-> TRUE,
     lastLoginAt |-> -1]

\* the User record Register stores
NewUser(email, password) ==
    [email |-> email, hash |-> hashPassword(password), isVerified |-> FALSE, isActive |-> TRUE,
     lastLoginAt |-> -1]

\* sendVerificationEmail: mint and store an EmailVerificationToken (the mail
\* itself is only logged); a store failure is returned to the caller
sendVerificationEmail(userID, fail) ==
    IF "CreateEmailVerificationToken" \in fail THEN [err |-> Internal, tokens |-> emailTokens]
    ELSE [err |-> Nil,
          tokens |-> Append(emailTokens, NewStoredToken(userID, now, DefaultVerifyTokenDuration))]

Register(email, password, fail) ==
    LET found == GetUserByEmail(email)
        done(err) == last' = [Reply("Register", err, RegisterStatus(err)) EXCEPT
                                  !.email = email, !.password = password, !.fail = fail]
    IN  /\ IF "GetUserByEmail" \in fail THEN
               /\ done(Internal)
               /\ UNCHANGED <<users, nextUid, emailTokens>>
           ELSE IF found.err = RepoOK THEN
               /\ done(ErrUserAlreadyExists)
               /\ UNCHANGED <<users, nextUid, emailTokens>>
           ELSE IF "CreateUser" \in fail THEN
               /\ done(Internal)
               /\ UNCHANGED <<users, nextUid, emailTokens>>
           ELSE
               /\ users' = users @@ (nextUid :> NewUser(email, password))
               /\ nextUid' = nextUid + 1
               \* a failure to mint the verification token is logged, not returned
               /\ emailTokens' = sendVerificationEmail(nextUid, fail).tokens
               /\ last' = [Reply("Register", Nil, RegisterStatus(Nil)) EXCEPT
                               !.email = email, !.password = password, !.fail = fail,
                               !.uid = nextUid]
        /\ UNCHANGED <<now, ticks, resetTokens, sessions, nextSid, issued>>

\* ------------------------------------------------------------ VerifyEmail
VerifyEmailCalls == {"VerifyEmailToken", "MarkUserVerified", "MarkEmailTokenUsed"}

\* handlers.VerifyEmail and handlers.ResetPassword: the status for each error
TokenOpStatus(err) ==
    IF err = Nil THEN StatusOK
    ELSE IF err = ErrInvalidToken THEN StatusBadRequest
    ELSE StatusInternalServerError

\* the checks of VerifyEmail that make it return an error
VerifyCheck(token, fail) ==
    LET v == VerifyEmailToken(token, now) IN
    IF "VerifyEmailToken" \in fail THEN Internal
    ELSE IF v.err \in {RepoTokenNotFound, RepoTokenExpired} THEN ErrInvalidToken
    ELSE IF "MarkUserVerified" \in fail THEN Internal
    ELSE Nil

\* VerifyEmail after the user is marked verified: mark the token used; a
\* failure is logged, not returned
VerifyMarkUsed(token, fail) ==
    IF "MarkEmailTokenUsed" \in fail THEN emailTokens
    ELSE MarkTokenUsed(emailTokens, token)

VerifyEmail(token, fail) ==
    LET v == VerifyEmailToken(token, now)
        err == VerifyCheck(token, fail)
        req == [NoReply EXCEPT !.op = "VerifyEmail", !.otok = token, !.fail = fail]
    IN  /\ IF err # Nil THEN
               /\ last' = [req EXCEPT !.err = err, !.status = TokenOpStatus(err)]
               /\ UNCHANGED <<users, emailTokens>>
           ELSE
               /\ users' = MarkUserVerified(users, v.userID)
               /\ emailTokens' = VerifyMarkUsed(token, fail)
               /\ last' = [req EXCEPT !.err = Nil, !.status = TokenOpStatus(Nil), !.uid = v.userID]
        /\ UNCHANGED <<now, ticks, nextUid, resetTokens, sessions, nextSid, issued>>

\* ------------------------------------------------------------------ Login
LoginCalls == {"GetUserByEmail", "GetPasswordHash", "CreateSession", "UpdateLastLogin"}

\* handlers.Login: the status for each service error
LoginStatus(err) ==
    IF err = Nil THEN StatusOK
    ELSE IF err = ErrInvalidCredentials THEN StatusUnauthorized
    ELSE IF err \in {ErrUserNotVerified, ErrUserDisabled} THEN StatusForbidden
    ELSE StatusInternalServerError

\* verifyPassword: any error, a failed read of the hash included, is an error
verifyPassword(userID, password, fail) ==
    IF "GetPasswordHash" \in fail \/ userID \notin DOMAIN users THEN FALSE
    ELSE CompareHashAndPassword(users[userID].hash, password)

\* the checks of Login without the one on isVerified
LoginCheckUnverified(email, password, fail) ==
    LET found == GetUserByEmail(email) IN
    IF "GetUserByEmail" \in fail THEN Internal
    ELSE IF found.err = RepoUserNotFound THEN ErrInvalidCredentials
    ELSE IF ~users[found.id].isActive THEN ErrUserDisabled
    ELSE IF ~verifyPassword(found.id, password, fail) THEN ErrInvalidCredentials
    ELSE IF "CreateSession" \in fail THEN Internal
    ELSE Nil

\* the checks of Login before it creates the session, in the code's order
LoginCheck(email, password, fail) ==
    LET found == GetUserByEmail(email) IN
    IF "GetUserByEmail" \in fail THEN Internal
    ELSE IF found.err = RepoUserNotFound THEN ErrInvalidCredentials
    ELSE IF ~users[found.id].isActive THEN ErrUserDisabled
    ELSE IF ~users[found.id].isVerified THEN ErrUserNotVerified
    ELSE IF ~verifyPassword(found.id, password, fail) THEN ErrInvalidCredentials
    ELSE IF "CreateSession" \in fail THEN Internal
    ELSE Nil

\* a createSession that takes the id of an inactive session of the store, when
\* there is one, and stores the new session in its place
createSessionOverInactive(userID) ==
    LET dead == {s \in DOMAIN sessions : ~sessions[s].isActive}
    IN  IF dead = {} THEN sessions @@ (nextSid :> NewSession(userID, now))
        ELSE [sessions EXCEPT ![CHOOSE s \in dead : TRUE] = NewSession(userID, now)]

\* createSession: a Session under a fresh id (uuid.New()), handed to
\* SessionRepository.CreateSession; the store after the call
createSession(userID) == sessions @@ (nextSid :> NewSession(userID, now))

\* a Login that stamps the attempt on the user it found before it checks anything
LoginRefusedStamped(email) ==
    LET found == GetUserByEmail(email) IN
    IF found.err = RepoOK THEN UpdateLastLogin(users, found.id, now) ELSE users

\* the users after a Login that returns an error: every return before
\* createSession comes before the first write
LoginRefused(email) == users

Login(email, password, fail) ==
    LET found == GetUserByEmail(email)
        err == LoginCheck(email, password, fail)
        accessToken == generateAccessToken(found.id, nextSid, now)
        refreshToken == generateRefreshToken(found.id, nextSid, now)
    IN  /\ IF err # Nil THEN
               /\ last' = [Reply("Login", err, LoginStatus(err)) EXCEPT
                               !.email = email, !.password = password, !.fail = fail]
               /\ users' = LoginRefused(email)
               /\ UNCHANGED <<sessions, nextSid, issued>>
           ELSE
               \* createSession
               /\ sessions' = createSession(found.id)
               /\ nextSid' = nextSid + 1
               /\ issued' = issued \cup {accessToken, refreshToken}
               \* a failure to stamp the last login is logged, not returned
               /\ users' = IF "UpdateLastLogin" \in fail THEN users
                           ELSE UpdateLastLogin(users, found.id, now)
               /\ last' = [Reply("Login", Nil, LoginStatus(Nil)) EXCEPT
                               !.email = email, !.password = password, !.fail = fail,
                               !.uid = found.id, !.sid = nextSid,
                               !.at = accessToken, !.rt = refreshToken]
        /\ UNCHANGED <<now, ticks, nextUid, emailTokens, resetTokens>>

\* ----------------------------------------------------------- RefreshToken
RefreshCalls == {"GetUser", "GetSession"}

\* handlers.RefreshToken: the status for each service error
RefreshStatus(err) ==
    IF err = Nil THEN StatusOK
    ELSE IF err \in {ErrInvalidToken, ErrTokenExpired} THEN StatusUnauthorized
    ELSE StatusInternalServerError

\* a session check that forgets the expiry
SessionUsableIfActive(s, at) == s.isActive

\* the session check of RefreshToken
SessionUsable(s, at) == s.isActive /\ ~IsExpired(s, at)

\* a rotation that moves the tokens to a session id of their own
RotatedFreshSessionID(claims) == nextSid

\* the session id the rotated tokens are issued under
RotatedSessionID(claims) == GetSession(claims.sessionID).id

\* the checks of RefreshToken, in the code's order
RefreshCheck(tok, fail) ==
    LET claims == parseRefreshToken(tok, now) IN
    IF claims.err # Nil THEN ErrInvalidToken
    ELSE IF "GetUser" \in fail THEN Internal
    ELSE IF GetUser(claims.userID).err = RepoUserNotFound THEN ErrInvalidToken
    ELSE IF ~users[claims.userID].isActive THEN ErrUserDisabled
    ELSE IF "GetSession" \in fail THEN Internal
    ELSE IF GetSession(claims.sessionID).err = RepoSessionNotFound THEN ErrInvalidToken
    ELSE IF ~SessionUsable(sessions[claims.sessionID], now) THEN ErrTokenExpired
    ELSE Nil

\* a rotation that uses the session up: the refresh deactivates it
RefreshSessionsConsumed(claims) == DeactivateSession(sessions, claims.sessionID)

\* a rotation that renews the session for another refresh duration
RefreshSessionsExtended(claims) ==
    [sessions EXCEPT ![claims.sessionID].expiresAt = now + DefaultRefreshDuration]

\* the sessions after a successful RefreshToken: it makes no repository write
RefreshSessions(claims) == sessions

RefreshToken(tok, fail) ==
    LET claims == parseRefreshToken(tok, now)
        err == RefreshCheck(tok, fail)
    IN  /\ IF err # Nil THEN
               /\ last' = [Reply("RefreshToken", err, RefreshStatus(err)) EXCEPT
                               !.tok = tok, !.fail = fail]
               /\ UNCHANGED <<issued, sessions>>
           ELSE
               LET accessToken == generateAccessToken(claims.userID, RotatedSessionID(claims), now)
                   newRefreshToken == generateRefreshToken(claims.userID, RotatedSessionID(claims), now)
               IN  /\ issued' = issued \cup {accessToken, newRefreshToken}
                   /\ sessions' = RefreshSessions(claims)
                   /\ last' = [Reply("RefreshToken", Nil, RefreshStatus(Nil)) EXCEPT
                                   !.tok = tok, !.fail = fail, !.uid = claims.userID,
                                   !.sid = claims.sessionID,
                                   !.at = accessToken, !.rt = newRefreshToken]
        /\ UNCHANGED <<now, ticks, users, nextUid, emailTokens, resetTokens, nextSid>>

\* a logout that only ever deactivates the session it is given
LogoutSessionByID(userID, sessionID) == DeactivateSession(sessions, sessionID)

\* a logout that always deactivates every session of the user
LogoutEverySession(userID, sessionID) == DeactivateUserSessions(sessions, userID)

\* a logout that flips the sessions it names
LogoutToggle(userID, sessionID) ==
    [s \in DOMAIN sessions |->
        IF (sessionID # 0 /\ s = sessionID) \/ (sessionID = 0 /\ sessions[s].userID = userID)
        THEN [sessions[s] EXCEPT !.isActive = ~@]
        ELSE sessions[s]]

\* ----------------------------------------------------------------- Logout
\* AuthService.Logout: the sessions after the call (sessionID 0 is "")
LogoutSessions(userID, sessionID) ==
    IF sessionID # 0 THEN DeactivateSession(sessions, sessionID)
    ELSE DeactivateUserSessions(sessions, userID)

\* every session the logout names is stored and already inactive
AlreadyLoggedOut(userID, sessionID) ==
    IF sessionID # 0 THEN sessionID \in DOMAIN sessions /\ ~sessions[sessionID].isActive
    ELSE /\ \E s \in DOMAIN sessions : sessions[s].userID = userID
         /\ \A s \in DOMAIN sessions : sessions[s].userID = userID => ~sessions[s].isActive

\* the repository call Logout makes
LogoutCall(sessionID) == IF sessionID # 0 THEN "DeactivateSession" ELSE "DeactivateUserSessions"

\* the body of a POST /logout: nothing, a JSON object (session_id 0: the field
\* is absent or empty), or text that is not JSON
NoBody == [kind |-> "", session_id |-> 0]
JsonBody(sessionID) == [kind |-> "json", session_id |-> sessionID]
Malformed == [kind |-> "malformed", session_id |-> 0]

\* handlers.Logout: var logoutReq LogoutRequest; json.Unmarshal when the body is
\* not empty, its error logged and dropped; the SessionID handed to the service
LogoutSessionID(body) ==
    IF body.kind = "" THEN 0
    ELSE IF body.kind = "json" THEN body.session_id
    ELSE 0

\* POST /logout behind AuthMiddleware
Logout(hdr, body, fail) ==
    LET mw == AuthMiddleware(hdr, now)
        sessionID == LogoutSessionID(body)
        req == [NoReply EXCEPT !.op = "Logout", !.hdr = hdr, !.sid = sessionID, !.fail = fail,
                               !.uid = mw.userID, !.body = body.kind]
    IN  /\ IF ~mw.ok THEN
               /\ last' = [req EXCEPT !.err = mw.body, !.status = mw.status]
               /\ UNCHANGED sessions
           ELSE IF LogoutCall(sessionID) \in fail THEN
               /\ last' = [req EXCEPT !.err = Internal, !.status = StatusInternalServerError]
               /\ UNCHANGED sessions
           ELSE
               /\ sessions' = LogoutSessions(mw.userID, sessionID)
               /\ last' = [req EXCEPT !.err = Nil, !.status = StatusOK,
                                      !.stale = AlreadyLoggedOut(mw.userID, sessionID)]
        /\ UNCHANGED <<now, ticks, users, nextUid, emailTokens, resetTokens, nextSid, issued>>

\* ---------------------------------------------------------- RevokeSession
RevokeCalls == {"GetSession", "DeactivateSession"}

\* handlers.RevokeSession: the status for each service error
RevokeStatus(err) ==
    IF err = Nil THEN StatusOK
    ELSE IF err = ErrSessionNotFound THEN StatusNotFound
    ELSE StatusInternalServerError

\* an ownership check that lets everyone through
OwnsAnySession(s, userID) == TRUE

\* the ownership check of RevokeSession
OwnsSession(s, userID) == s.userID = userID

\* the checks of AuthService.RevokeSession, in the code's order
RevokeCheck(userID, sessionID, fail) ==
    IF "GetSession" \in fail THEN Internal
    ELSE IF GetSession(sessionID).err = RepoSessionNotFound THEN ErrSessionNotFound
    ELSE IF ~OwnsSession(sessions[sessionID], userID) THEN ErrSessionNotFound
    ELSE IF "DeactivateSession" \in fail THEN Internal
    ELSE Nil

\* DELETE /sessions/{id} behind AuthMiddleware
RevokeSession(hdr, sessionID, fail) ==
    LET mw == AuthMiddleware(hdr, now)
        err == RevokeCheck(mw.userID, sessionID, fail)
        req == [NoReply EXCEPT !.op = "RevokeSession", !.hdr = hdr, !.sid = sessionID,
                               !.fail = fail, !.uid = mw.userID]
    IN  /\ IF ~mw.ok THEN
               /\ last' = [req EXCEPT !.err = mw.body, !.status = mw.status]
               /\ UNCHANGED sessions
           ELSE IF sessionID = 0 THEN
               /\ last' = [req EXCEPT !.err = "session ID required", !.status = StatusBadRequest]
               /\ UNCHANGED sessions
           ELSE IF err # Nil THEN
               /\ last' = [req EXCEPT !.err = err, !.status = RevokeStatus(err)]
               /\ UNCHANGED sessions
           ELSE
               /\ sessions' = DeactivateSession(sessions, sessionID)
               /\ last' = [req EXCEPT !.err = Nil, !.status = RevokeStatus(Nil)]
        /\ UNCHANGED <<now, ticks, users, nextUid, emailTokens, resetTokens, nextSid, issued>>

\* --------------------------------------------------------- ForgotPassword
ForgotCalls == {"GetUserByEmail", "CreatePasswordResetToken"}

\* AuthService.ForgotPassword: its result
ForgotCheck(email, fail) ==
    IF "GetUserByEmail" \in fail THEN Internal
    ELSE IF GetUserByEmail(email).err = RepoUserNotFound THEN Nil
    ELSE IF "CreatePasswordResetToken" \in fail THEN Internal
    ELSE Nil

\* POST /forgot-password: the handler answers 200 whatever the service returns
ForgotPassword(email, fail) ==
    LET found == GetUserByEmail(email)
        err == ForgotCheck(email, fail)
        minted == err = Nil /\ found.err = RepoOK
    IN  /\ resetTokens' = IF minted
                          THEN Append(resetTokens, NewStoredToken(found.id, now, DefaultResetTokenDuration))
                          ELSE resetTokens
        /\ last' = [Reply("ForgotPassword", err, StatusOK) EXCEPT
                        !.email = email, !.fail = fail,
                        !.otok = IF minted THEN Len(resetTokens) + 1 ELSE 0]
        /\ UNCHANGED <<now, ticks, users, nextUid, emailTokens, sessions, nextSid, issued>>

\* ---------------------------------------------------------- ResetPassword
ResetCalls == {"VerifyPasswordResetToken", "UpdatePassword", "MarkPasswordResetTokenUsed",
               "DeactivateUserSessions"}

\* the checks of ResetPassword that make it return an error
ResetCheck(token, fail) ==
    LET v == VerifyPasswordResetToken(token, now) IN
    IF "VerifyPasswordResetToken" \in fail THEN Internal
    ELSE IF v.err \in {RepoTokenNotFound, RepoTokenExpired} THEN ErrInvalidToken
    ELSE IF "UpdatePassword" \in fail THEN Internal
    ELSE Nil

\* ResetPassword after the password is stored: mark the token used; a failure
\* is logged, not returned
ResetMarkUsed(token, fail) ==
    IF "MarkPasswordResetTokenUsed" \in fail THEN resetTokens
    ELSE MarkTokenUsed(resetTokens, token)

\* ResetPassword, last step: deactivate the user's sessions; a failure is
\* logged, not returned
ResetDeactivate(userID, fail) ==
    IF "DeactivateUserSessions" \in fail THEN sessions
    ELSE DeactivateUserSessions(sessions, userID)

ResetPassword(token, newPassword, fail) ==
    LET v == VerifyPasswordResetToken(token, now)
        err == ResetCheck(token, fail)
        req == [NoReply EXCEPT !.op = "ResetPassword", !.otok = token, !.password = newPassword,
                               !.fail = fail]
    IN  /\ IF err # Nil THEN
               /\ last' = [req EXCEPT !.err = err, !.status = TokenOpStatus(err)]
               /\ UNCHANGED <<users, resetTokens, sessions>>
           ELSE
               /\ users' = UpdatePassword(users, v.userID, hashPassword(newPassword))
               /\ resetTokens' = ResetMarkUsed(token, fail)
               /\ sessions' = ResetDeactivate(v.userID, fail)
               /\ last' = [req EXCEPT !.err = Nil, !.status = TokenOpStatus(Nil), !.uid = v.userID]
        /\ UNCHANGED <<now, ticks, nextUid, emailTokens, nextSid, issued>>

\* --------------------------------------------------------- ChangePassword
ChangeCalls == {"GetPasswordHash", "UpdatePassword"}

\* handlers.ChangePassword: the status for each service error
ChangeStatus(err) ==
    IF err = Nil THEN StatusOK
    ELSE IF err = ErrInvalidCredentials THEN StatusBadRequest
    ELSE StatusInternalServerError

\* a ChangePassword that does not verify the current password
ChangeCheckUnverified(userID, currentPassword, fail) ==
    IF "UpdatePassword" \in fail THEN Internal
    ELSE Nil

\* the checks of ChangePassword, in the code's order
ChangeCheck(userID, currentPassword, fail) ==
    IF ~verifyPassword(userID, currentPassword, fail) THEN ErrInvalidCredentials
    ELSE IF "UpdatePassword" \in fail THEN Internal
    ELSE Nil

\* a ChangePassword that revokes the user's sessions, as ResetPassword does
ChangeSessionsRevoked(userID) == DeactivateUserSessions(sessions, userID)

\* the sessions after ChangePassword: it makes no Session Repository call
ChangeSessions(userID) == sessions

\* POST /change-password behind AuthMiddleware
ChangePassword(hdr, currentPassword, newPassword, fail) ==
    LET mw == AuthMiddleware(hdr, now)
        err == ChangeCheck(mw.userID, currentPassword, fail)
        req == [NoReply EXCEPT !.op = "ChangePassword", !.hdr = hdr, !.uid = mw.userID,
                               !.password = currentPassword, !.newPassword = newPassword,
                               !.fail = fail]
    IN  /\ IF ~mw.ok THEN
               /\ last' = [req EXCEPT !.err = mw.body, !.status = mw.status]
               /\ UNCHANGED <<users, sessions>>
           ELSE IF err # Nil THEN
               /\ last' = [req EXCEPT !.err = err, !.status = ChangeStatus(err)]
               /\ UNCHANGED <<users, sessions>>
           ELSE
               /\ users' = UpdatePassword(users, mw.userID, hashPassword(newPassword))
               /\ sessions' = ChangeSessions(mw.userID)
               /\ last' = [req EXCEPT !.err = Nil, !.status = ChangeStatus(Nil)]
        /\ UNCHANGED <<now, ticks, nextUid, emailTokens, resetTokens, nextSid, issued>>

\* ----------------------------------------------------- ResendVerification
ResendCalls == {"GetUserByEmail", "CreateEmailVerificationToken"}

\* a resend that does not look at IsVerified
ResendTargetAnyUser(email, fail) ==
    LET found == GetUserByEmail(email) IN
    IF "GetUserByEmail" \in fail \/ found.err = RepoUserNotFound THEN 0
    ELSE found.id

\* the user ResendVerification mints a token for, if any: a stored user not
\* yet verified
ResendTarget(email, fail) ==
    LET found == GetUserByEmail(email) IN
    IF "GetUserByEmail" \in fail \/ found.err = RepoUserNotFound THEN 0
    ELSE IF users[found.id].isVerified THEN 0
    ELSE found.id

\* AuthService.ResendVerification: its result
ResendCheck(email, fail) ==
    IF "GetUserByEmail" \in fail THEN Internal
    ELSE IF ResendTarget(email, fail) = 0 THEN Nil
    ELSE sendVerificationEmail(ResendTarget(email, fail), fail).err

\* POST /resend-verification: the handler answers 200 whatever the service returns
ResendVerification(email, fail) ==
    LET target == ResendTarget(email, fail)
        err == ResendCheck(email, fail)
        minted == target # 0 /\ err = Nil
    IN  /\ emailTokens' = IF target # 0 THEN sendVerificationEmail(target, fail).tokens
                          ELSE emailTokens
        /\ last' = [Reply("ResendVerification", err, StatusOK) EXCEPT
                        !.email = email, !.fail = fail, !.uid = target,
                        !.otok = IF minted THEN Len(emailTokens) + 1 ELSE 0]
        /\ UNCHANGED <<now, ticks, users, nextUid, resetTokens, sessions, nextSid, issued>>

\* ------------------------------------------------- CreateAnonymousSession
\* An instant is a whole number of time units (t) and a sub-second part (ns);
\* every request starts on a whole unit and each time.Now() it makes returns
\* that unit and a sub-second part no smaller than the previous read's.
Instant(t, ns) == [t |-> t, ns |-> ns]
Add(inst, d) == [inst EXCEPT !.t = @ + d]
\* time.Time.Unix(): whole seconds, the sub-second part dropped
Unix(inst) == inst.t

AnonCalls == {"CreateAnonymousSession"}

\* generateAnonymousToken: iat and exp are Unix seconds of its own clock read
generateAnonymousToken(sessionID, read) ==
    [typ |-> TokenTypeAnonymous, sub |-> 0, email |-> "", sid |-> sessionID,
     iat |-> Unix(read), exp |-> Unix(Add(read, DefaultAnonymousDuration)), sig |-> Secret]

\* the AnonymousSession record CreateAnonymousSession builds: CreatedAt and
\* ExpiresAt come from two further clock reads
NewAnonymousSession(sessionID, token, read2, read3) ==
    [id |-> sessionID, token |-> token, createdAt |-> read2,
     expiresAt |-> Add(read3, DefaultAnonymousDuration)]

\* handlers.CreateAnonymousSession: the status for each service error
AnonStatus(err) == IF err = Nil THEN StatusCreated ELSE StatusInternalServerError

\* POST /anonymous; f1 <= f2 <= f3 are the sub-second parts of its clock reads
CreateAnonymousSession(f1, f2, f3, fail) ==
    LET sessionID == Len(anon) + 1
        token == generateAnonymousToken(sessionID, Instant(now, f1))
        session == NewAnonymousSession(sessionID, token, Instant(now, f2), Instant(now, f3))
    IN  /\ f1 <= f2 /\ f2 <= f3
        /\ IF "CreateAnonymousSession" \in fail THEN
               /\ last' = [Reply("CreateAnonymousSession", Internal, AnonStatus(Internal)) EXCEPT
                               !.fail = fail]
               /\ UNCHANGED <<anon, issued>>
           ELSE
               /\ anon' = Append(anon, session)
               /\ issued' = issued \cup {token}
               /\ last' = [Reply("CreateAnonymousSession", Nil, AnonStatus(Nil)) EXCEPT
                               !.fail = fail, !.sid = sessionID, !.tok = token]
        /\ UNCHANGED <<now, ticks, users, nextUid, emailTokens, resetTokens, sessions, nextSid>>

\* ----------------------------------------------- GetCurrentUser, sessions
\* handlers.GetCurrentUser and handlers.GetUserSessions: any service error is 500
ReadStatus(err) == IF err = Nil THEN StatusOK ELSE StatusInternalServerError

\* AuthService.GetUser: a repository error, user not found included, is wrapped
GetUserCheck(userID, fail) ==
    IF "GetUser" \in fail \/ GetUser(userID).err # RepoOK THEN Internal ELSE Nil

\* GET /me behind AuthMiddleware
GetCurrentUser(hdr, fail) ==
    LET mw == AuthMiddleware(hdr, now)
        err == GetUserCheck(mw.userID, fail)
        req == [NoReply EXCEPT !.op = "GetCurrentUser", !.hdr = hdr, !.uid = mw.userID,
                               !.fail = fail]
    IN  /\ last' = IF ~mw.ok THEN [req EXCEPT !.err = mw.body, !.status = mw.status]
                   ELSE IF err # Nil THEN [req EXCEPT !.err = err, !.status = ReadStatus(err)]
                   ELSE [req EXCEPT !.status = ReadStatus(Nil), !.email = users[mw.userID].email]
        /\ UNCHANGED <<now, ticks, users, nextUid, emailTokens, resetTokens, sessions, nextSid,
                       issued>>

\* GET /sessions behind AuthMiddleware
GetUserSessions(hdr, fail) ==
    LET mw == AuthMiddleware(hdr, now)
        err == IF "GetUserSessions" \in fail THEN Internal ELSE Nil
        req == [NoReply EXCEPT !.op = "GetUserSessions", !.hdr = hdr, !.uid = mw.userID,
                               !.fail = fail]
    IN  /\ last' = IF ~mw.ok THEN [req EXCEPT !.err = mw.body, !.status = mw.status]
                   ELSE [req EXCEPT !.err = err, !.status = ReadStatus(err)]
        /\ UNCHANGED <<now, ticks, users, nextUid, emailTokens, resetTokens, sessions, nextSid,
                       issued>>

\* ------------------------------------------------------------ environment
\* an administrator clears User.IsActive (UserRepository.UpdateUser); the
\* service itself never does
DisableUser(u) ==
    /\ u \in DOMAIN users
    /\ users[u].isActive
    /\ users' = [users EXCEPT ![u].isActive = FALSE]
    /\ last' = [NoReply EXCEPT !.op = "DisableUser", !.uid = u]
    /\ UNCHANGED <<now, ticks, nextUid, emailTokens, resetTokens, sessions, nextSid, issued>>

\* the storage layer reaps sessions past expiresAt (time-to-live)
CleanupExpiredSessions ==
    /\ \E s \in DOMAIN sessions : IsExpired(sessions[s], now)
    /\ sessions' = [s \in {x \in DOMAIN sessions : ~IsExpired(sessions[x], now)} |-> sessions[s]]
    /\ last' = [NoReply EXCEPT !.op = "CleanupExpiredSessions"]
    /\ UNCHANGED <<now, ticks, users, nextUid, emailTokens, resetTokens, nextSid, issued>>

\* the instants at which something stops being valid: a JWT and a stored token
\* at their expiry (valid while now < exp), a session just past its expiresAt
\* (expired when now > expiresAt)
Deadlines ==
    {t.exp : t \in issued} \cup {sessions[s].expiresAt + 1 : s \in DOMAIN sessions}
        \cup {resetTokens[i].expiresAt : i \in DOMAIN resetTokens}
        \cup {emailTokens[i].expiresAt : i \in DOMAIN emailTokens}

\* the clock advances to a later instant at which something stops being valid
Tick ==
    /\ \E t \in Deadlines :
           /\ t > now
           /\ now' = t
    /\ ticks' = ticks + 1
    /\ last' = [NoReply EXCEPT !.op = "Tick"]
    /\ UNCHANGED <<users, nextUid, emailTokens, resetTokens, sessions, nextSid, issued>>

\* ------------------------------------------------------------------ specs
\* a request meets at most one failing repository call; without faults, none
Faults(faulty, calls) == IF faulty THEN {{}} \cup {{c} : c \in calls} ELSE {{}}

\* the session ids a client may name: "", every id handed out, and one never handed out
SessionIDs == 0 .. nextSid

\* the body or path of a request is read only behind the middleware
BehindAuth(h, S) == IF AuthMiddleware(h, now).ok THEN S ELSE {0}

\* the bodies a client may send to POST /logout
LogoutBodies(h) ==
    IF AuthMiddleware(h, now).ok
    THEN {NoBody, Malformed} \cup {JsonBody(sid) : sid \in SessionIDs}
    ELSE {NoBody}

\* the bounds of a specification: how many users, sessions and stored tokens
Limits(u, s, r, e) == [users |-> u, sessions |-> s, resetTokens |-> r, emailTokens |-> e]

RoomToRegister(e, L) ==
    GetUserByEmail(e).err = RepoOK \/ (nextUid <= L.users /\ Len(emailTokens) < L.emailTokens)
RoomToLogin(e, p, f, L) == LoginCheck(e, p, f) # Nil \/ nextSid <= L.sessions
RoomToResend(e, f, L) ==
    (ResendTarget(e, f) # 0 /\ ResendCheck(e, f) = Nil) => Len(emailTokens) < L.emailTokens
\* the passwords a request body may carry, once the middleware has let it through
PasswordsBehindAuth(h) == IF AuthMiddleware(h, now).ok THEN Passwords ELSE {""}
RoomToForget(e, f, L) ==
    (ForgotCheck(e, f) = Nil /\ GetUserByEmail(e).err = RepoOK) => Len(resetTokens) < L.resetTokens

\* a request that runs as one step, outside SpecScenario and SpecGateway: it
\* leaves the invocations in flight, the script and the router's record alone
Apart == UNCHANGED <<procs, scn, anon, http>>

Requests(faulty, L) ==
    \/ \E e \in Emails, p \in Passwords, f \in Faults(faulty, RegisterCalls) :
          RoomToRegister(e, L) /\ Register(e, p, f) /\ Apart
    \/ \E k \in 1 .. Len(emailTokens) + 1, f \in Faults(faulty, VerifyEmailCalls) :
          VerifyEmail(k, f) /\ Apart
    \/ \E e \in Emails, p \in Passwords, f \in Faults(faulty, LoginCalls) :
          RoomToLogin(e, p, f, L) /\ Login(e, p, f) /\ Apart
    \/ \E t \in Presentable, f \in Faults(faulty, RefreshCalls) : RefreshToken(t, f) /\ Apart
    \/ \E h \in Headers : \E b \in LogoutBodies(h) :
          \E f \in Faults(faulty, {LogoutCall(LogoutSessionID(b))}) : Logout(h, b, f) /\ Apart
    \/ \E h \in Headers : \E s \in BehindAuth(h, SessionIDs), f \in Faults(faulty, RevokeCalls) :
          RevokeSession(h, s, f) /\ Apart
    \/ \E e \in Emails, f \in Faults(faulty, ForgotCalls) :
          RoomToForget(e, f, L) /\ ForgotPassword(e, f) /\ Apart
    \/ \E k \in 1 .. Len(resetTokens) + 1, p \in Passwords, f \in Faults(faulty, ResetCalls) :
          ResetPassword(k, p, f) /\ Apart
    \/ \E h \in Headers : \E c, p \in PasswordsBehindAuth(h), f \in Faults(faulty, ChangeCalls) :
          ChangePassword(h, c, p, f) /\ Apart
    \/ \E e \in Emails, f \in Faults(faulty, ResendCalls) :
          RoomToResend(e, f, L) /\ ResendVerification(e, f) /\ Apart

\* two users, every request answered by repositories that do not fail, all of
\* it within the first quarter of an hour
Next == Requests(FALSE, Limits(MaxUsers, MaxSessions, MaxResetTokens, MaxEmailTokens))

Spec == Init /\ [][Next]_vars

\* one user, and the environment: the clock and the reaper of expired sessions
Environment ==
    \/ CleanupExpiredSessions /\ Apart
    \/ ticks < MaxTicks /\ Tick /\ Apart

NextClock ==
    \/ Requests(FALSE, Limits(ClockUsers, ClockSessions, ClockResetTokens, ClockEmailTokens))
    \/ Environment

SpecClock == Init /\ [][NextClock]_vars

\* one user whom an administrator may disable, and repositories that may fail
\* any one call of a request
NextFault ==
    \/ Requests(TRUE, Limits(FaultUsers, FaultSessions, FaultResetTokens, FaultEmailTokens))
    \/ \E u \in DOMAIN users : DisableUser(u) /\ Apart

SpecFault == Init /\ [][NextFault]_vars

\* ------------------------------------------------- concurrent ResetPassword
\* Each request runs in its own invocation; the repository calls of two
\* invocations interleave.  ResetPassword, one repository call at a time:
Shared == <<now, ticks, nextUid, emailTokens, nextSid, issued, last, scn, anon, http>>

RaceBegin(p, token, newPassword) ==
    /\ procs[p].pc = "idle"
    /\ procs' = [procs EXCEPT ![p] = [Idle EXCEPT !.pc = "verify", !.token = token,
                                                  !.password = newPassword]]
    /\ UNCHANGED <<users, resetTokens, sessions>>
    /\ UNCHANGED Shared

\* userID, err := s.userRepo.VerifyPasswordResetToken(ctx, token)
RaceVerify(p) ==
    LET v == VerifyPasswordResetToken(procs[p].token, now) IN
    /\ procs[p].pc = "verify"
    /\ procs' = IF v.err \in {RepoTokenNotFound, RepoTokenExpired}
                THEN [procs EXCEPT ![p].pc = "done", ![p].err = ErrInvalidToken]
                ELSE [procs EXCEPT ![p].pc = "update", ![p].userID = v.userID]
    /\ UNCHANGED <<users, resetTokens, sessions>>
    /\ UNCHANGED Shared

\* err = s.userRepo.UpdatePassword(ctx, userID, passwordHash)
RaceUpdatePassword(p) ==
    /\ procs[p].pc = "update"
    /\ users' = UpdatePassword(users, procs[p].userID, hashPassword(procs[p].password))
    /\ procs' = [procs EXCEPT ![p].pc = "mark"]
    /\ UNCHANGED <<resetTokens, sessions>>
    /\ UNCHANGED Shared

\* err = s.userRepo.MarkPasswordResetTokenUsed(ctx, token)
RaceMarkUsed(p) ==
    /\ procs[p].pc = "mark"
    /\ resetTokens' = MarkTokenUsed(resetTokens, procs[p].token)
    /\ procs' = [procs EXCEPT ![p].pc = "deactivate"]
    /\ UNCHANGED <<users, sessions>>
    /\ UNCHANGED Shared

\* err = s.sessionRepo.DeactivateUserSessions(ctx, userID); return nil
RaceDeactivate(p) ==
    /\ procs[p].pc = "deactivate"
    /\ sessions' = DeactivateUserSessions(sessions, procs[p].userID)
    /\ procs' = [procs EXCEPT ![p].pc = "done", ![p].err = Nil]
    /\ UNCHANGED <<users, resetTokens>>
    /\ UNCHANGED Shared

NextRace ==
    \/ Requests(FALSE, Limits(RaceUsers, RaceSessions, RaceResetTokens, RaceEmailTokens))
    \/ \E p \in Procs, k \in 1 .. Len(resetTokens), pw \in Passwords : RaceBegin(p, k, pw)
    \/ \E p \in Procs : RaceVerify(p)
    \/ \E p \in Procs : RaceUpdatePassword(p)
    \/ \E p \in Procs : RaceMarkUsed(p)
    \/ \E p \in Procs : RaceDeactivate(p)

SpecRace == Init /\ [][NextRace]_vars

\* ---------------------------------------- Register and RefreshToken in flight
\* Register, one repository call at a time
FlightBegin(p, q) ==
    /\ procs[p].pc = "idle"
    /\ procs' = [procs EXCEPT ![p] = q]
    /\ UNCHANGED <<now, ticks, users, nextUid, emailTokens, resetTokens, sessions, nextSid,
                   issued, last, scn, anon, http>>

RegisterBegin(p, email, password) ==
    FlightBegin(p, [Idle EXCEPT !.pc = "lookup", !.email = email, !.password = password])

\* UserRepository.CreateUser: the user is stored under its id
CreateUser(us, id, user) == us @@ (id :> user)

\* existingUser, err := s.userRepo.GetUserByEmail(ctx, req.Email); existingUser != nil
RegisterFound(p) == GetUserByEmail(procs[p].email).err = RepoOK

RegisterLookup(p) ==
    /\ procs[p].pc = "lookup"
    /\ procs' = IF RegisterFound(p)
                THEN [procs EXCEPT ![p].pc = "done", ![p].err = ErrUserAlreadyExists]
                ELSE [procs EXCEPT ![p].pc = "create"]
    /\ UNCHANGED <<now, ticks, users, nextUid, emailTokens, resetTokens, sessions, nextSid,
                   issued, last, scn, anon, http>>

\* err = s.userRepo.CreateUser(ctx, user, createReq.PasswordHash)
RegisterCreate(p) ==
    /\ procs[p].pc = "create"
    /\ users' = CreateUser(users, nextUid, NewUser(procs[p].email, procs[p].password))
    /\ nextUid' = nextUid + 1
    /\ procs' = [procs EXCEPT ![p].pc = "mail", ![p].userID = nextUid]
    /\ UNCHANGED <<now, ticks, emailTokens, resetTokens, sessions, nextSid, issued, last, scn,
                   anon, http>>

\* err = s.sendVerificationEmail(ctx, user); return user, nil
RegisterMail(p) ==
    /\ procs[p].pc = "mail"
    /\ emailTokens' = sendVerificationEmail(procs[p].userID, {}).tokens
    /\ procs' = [procs EXCEPT ![p].pc = "done", ![p].err = Nil]
    /\ UNCHANGED <<now, ticks, users, nextUid, resetTokens, sessions, nextSid, issued, last, scn,
                   anon, http>>

\* RefreshToken, one repository call at a time
\* claims, err := s.parseRefreshToken(refreshToken)
RefreshBegin(p, tok) ==
    FlightBegin(p, IF parseRefreshToken(tok, now).err # Nil
                   THEN [Idle EXCEPT !.pc = "done", !.tok = tok, !.err = ErrInvalidToken]
                   ELSE [Idle EXCEPT !.pc = "getUser", !.tok = tok, !.userID = tok.sub])

\* user, err := s.userRepo.GetUser(ctx, claims.UserID); !user.IsActive
RefreshGetUser(p) ==
    LET u == procs[p].userID IN
    /\ procs[p].pc = "getUser"
    /\ procs' = IF GetUser(u).err = RepoUserNotFound
                THEN [procs EXCEPT ![p].pc = "done", ![p].err = ErrInvalidToken]
                ELSE IF ~users[u].isActive
                THEN [procs EXCEPT ![p].pc = "done", ![p].err = ErrUserDisabled]
                ELSE [procs EXCEPT ![p].pc = "getSession"]
    /\ UNCHANGED <<now, ticks, users, nextUid, emailTokens, resetTokens, sessions, nextSid,
                   issued, last, scn, anon, http>>

\* session, err := s.sessionRepo.GetSession(ctx, claims.SessionID);
\* !session.IsActive || session.IsExpired()
RefreshGetSession(p) ==
    LET sid == procs[p].tok.sid IN
    /\ procs[p].pc = "getSession"
    /\ procs' = IF GetSession(sid).err = RepoSessionNotFound
                THEN [procs EXCEPT ![p].pc = "done", ![p].err = ErrInvalidToken]
                ELSE IF ~SessionUsable(sessions[sid], now)
                THEN [procs EXCEPT ![p].pc = "done", ![p].err = ErrTokenExpired]
                ELSE [procs EXCEPT ![p].pc = "issue"]
    /\ UNCHANGED <<now, ticks, users, nextUid, emailTokens, resetTokens, sessions, nextSid,
                   issued, last, scn, anon, http>>

\* generateAccessToken, generateRefreshToken, return response, nil: the tokens
\* are made from the user and the session read before
RefreshIssue(p) ==
    LET u == procs[p].userID
        sid == procs[p].tok.sid
    IN  /\ procs[p].pc = "issue"
        /\ issued' = issued \cup {generateAccessToken(u, sid, now),
                                   generateRefreshToken(u, sid, now)}
        /\ procs' = [procs EXCEPT ![p].pc = "done", ![p].err = Nil]
        /\ UNCHANGED <<now, ticks, users, nextUid, emailTokens, resetTokens, sessions, nextSid,
                       last, scn, anon, http>>

\* a Register may begin while the users stored and the invocations that may
\* still store one stay within the bound
RoomInFlight ==
    nextUid + Cardinality({q \in Procs : procs[q].pc \in {"lookup", "create"}}) <= FlightUsers

\* the refresh tokens a client holds
RefreshTokens == {t \in issued : t.typ = TokenTypeRefresh}

\* Register and RefreshToken invocations interleave call by call with each
\* other and with VerifyEmail, Login and Logout
NextInFlight ==
    \/ \E p \in Procs, e \in Emails, pw \in Passwords :
          RoomInFlight /\ RegisterBegin(p, e, pw)
    \/ \E p \in Procs : RegisterLookup(p)
    \/ \E p \in Procs : RegisterCreate(p)
    \/ \E p \in Procs : RegisterMail(p)
    \/ \E k \in 1 .. Len(emailTokens) : VerifyEmail(k, {}) /\ Apart
    \/ \E e \in Emails, pw \in Passwords :
          RoomToLogin(e, pw, {}, Limits(FlightUsers, FlightSessions, 0, 0)) /\ Login(e, pw, {}) /\ Apart
    \/ \E p \in Procs, t \in RefreshTokens : RefreshBegin(p, t)
    \/ \E p \in Procs : RefreshGetUser(p)
    \/ \E p \in Procs : RefreshGetSession(p)
    \/ \E p \in Procs : RefreshIssue(p)
    \/ \E h \in Headers : \E b \in LogoutBodies(h) : Logout(h, b, {}) /\ Apart

SpecInFlight == Init /\ [][NextInFlight]_vars

\* ------------------------------------------------------------ the router
\* main.createRouter: Chain(CORS, RequestLogging, RateLimit) around the switch
\* on path and method; AuthMiddleware wraps the protected handlers.
Methods == {"GET", "POST", "DELETE", "OPTIONS"}
Paths == {"/login", "/logout", "/register", "/refresh", "/forgot-password", "/reset-password",
          "/change-password", "/verify-email", "/resend-verification", "/me", "/anonymous",
          "/health", "/sessions", "/sessions/:id", "/unknown"}

\* strings.HasPrefix(path, "/sessions") and strings.HasPrefix(path, "/sessions/")
HasPrefixSessions(path) == path \in {"/sessions", "/sessions/:id"}
HasPrefixSessionsSlash(path) == path = "/sessions/:id"

Open(h) == [handler |-> h, protected |-> FALSE]
Protected(h) == [handler |-> h, protected |-> TRUE]

\* the switch of createRouter, case by case
Route(path, method) ==
    IF path = "/login" /\ method = "POST" THEN Open("Login")
    ELSE IF path = "/logout" /\ method = "POST" THEN Protected("Logout")
    ELSE IF path = "/register" /\ method = "POST" THEN Open("Register")
    ELSE IF path = "/refresh" /\ method = "POST" THEN Open("RefreshToken")
    ELSE IF path = "/forgot-password" /\ method = "POST" THEN Open("ForgotPassword")
    ELSE IF path = "/reset-password" /\ method = "POST" THEN Open("ResetPassword")
    ELSE IF path = "/change-password" /\ method = "POST" THEN Protected("ChangePassword")
    ELSE IF path = "/verify-email" /\ method = "POST" THEN Open("VerifyEmail")
    ELSE IF path = "/resend-verification" /\ method = "POST" THEN Open("ResendVerification")
    ELSE IF path = "/me" /\ method = "GET" THEN Protected("GetCurrentUser")
    ELSE IF path = "/anonymous" /\ method = "POST" THEN Open("CreateAnonymousSession")
    ELSE IF path = "/health" /\ method = "GET" THEN Open("healthCheck")
    ELSE IF HasPrefixSessions(path) /\ method = "GET" THEN Protected("GetUserSessions")
    ELSE IF HasPrefixSessionsSlash(path) /\ method = "DELETE" THEN Protected("RevokeSession")
    ELSE Open("")

\* the middlewares createRouter hands to Chain, in the order it names them
RouterMiddlewares == <<"CORS", "RequestLogging", "RateLimit">>

\* a chain built from the first middleware inwards, so that the last one named
\* ends up outermost
ChainReversed(middlewares, next) ==
    LET RECURSIVE Wrap(_, _)
        Wrap(i, inner) == IF i > Len(middlewares) THEN inner
                          ELSE Wrap(i + 1, <<middlewares[i]>> \o inner)
    IN  Wrap(1, next)

\* middleware.Chain: for i := len-1 .. 0 { next = middlewares[i](next) }; the
\* result lists the stages from the outermost inwards
Chain(middlewares, next) ==
    LET RECURSIVE Wrap(_, _)
        Wrap(i, inner) == IF i = 0 THEN inner ELSE Wrap(i - 1, <<middlewares[i]>> \o inner)
    IN  Wrap(Len(middlewares), next)

\* what the switch calls for a request: AuthMiddleware(handler), the handler,
\* or nothing (the router answers 404 itself)
Dispatch(path, method) ==
    LET r == Route(path, method) IN
    IF r.handler = "" THEN <<>>
    ELSE IF r.protected THEN <<"AuthMiddleware", r.handler>>
    ELSE <<r.handler>>

\* a CORS stage that does not answer preflights itself
EnterWithoutPreflight(stages, method, hdr) ==
    LET RECURSIVE Run(_)
        Run(rest) ==
            IF rest = <<>> THEN <<>>
            ELSE IF Head(rest) = "AuthMiddleware" /\ ~AuthMiddleware(hdr, now).ok
                 THEN <<"AuthMiddleware">>
            ELSE <<Head(rest)>> \o Run(Tail(rest))
    IN  Run(stages)

\* the stages a request enters, outermost first: a stage that answers the
\* request itself (CORS on OPTIONS, AuthMiddleware on a bad header or token)
\* does not call the next one
Enter(stages, method, hdr) ==
    LET RECURSIVE Run(_)
        Run(rest) ==
            IF rest = <<>> THEN <<>>
            ELSE IF Head(rest) = "CORS" /\ method = "OPTIONS" THEN <<"CORS">>
            ELSE IF Head(rest) = "AuthMiddleware" /\ ~AuthMiddleware(hdr, now).ok
                 THEN <<"AuthMiddleware">>
            ELSE <<Head(rest)>> \o Run(Tail(rest))
    IN  Run(stages)

\* the stages of the last request
Trace(path, method, hdr) ==
    Enter(Chain(RouterMiddlewares, <<"router">> \o Dispatch(path, method)), method, hdr)

\* CORSMiddleware: the headers of its preflight answer
PreflightHeaders ==
    {"Access-Control-Allow-Origin", "Access-Control-Allow-Methods", "Access-Control-Allow-Headers",
     "Access-Control-Allow-Credentials", "Access-Control-Max-Age"}

\* the headers of every other response: the handler's or middleware's
\* Content-Type, then X-Correlation-ID (RequestLogging) and the two CORS headers
ResponseHeaders ==
    {"Content-Type", "X-Correlation-ID", "Access-Control-Allow-Origin",
     "Access-Control-Allow-Credentials"}

\* an OPTIONS request to any path, with any Authorization header
Preflight(path, hdr) ==
    /\ http' = [method |-> "OPTIONS", path |-> path, trace |-> Trace(path, "OPTIONS", hdr),
                status |-> StatusOK, headers |-> PreflightHeaders, body |-> ""]
    /\ last' = [NoReply EXCEPT !.op = "OPTIONS", !.hdr = hdr, !.status = StatusOK]
    /\ UNCHANGED <<now, ticks, users, nextUid, emailTokens, resetTokens, sessions, nextSid,
                   issued, anon, procs, scn>>

\* a request no case of the switch matches
NotFound(path, method) ==
    /\ method # "OPTIONS"
    /\ Route(path, method).handler = ""
    /\ http' = [method |-> method, path |-> path, trace |-> Trace(path, method, NoHeader),
                status |-> StatusNotFound, headers |-> ResponseHeaders,
                body |-> "endpoint not found"]
    /\ last' = [NoReply EXCEPT !.op = "NotFound", !.status = StatusNotFound,
                               !.err = "endpoint not found"]
    /\ UNCHANGED <<now, ticks, users, nextUid, emailTokens, resetTokens, sessions, nextSid,
                   issued, anon, procs, scn>>

\* GET /health
healthCheck ==
    /\ http' = [method |-> "GET", path |-> "/health", trace |-> Trace("/health", "GET", NoHeader),
                status |-> StatusOK, headers |-> ResponseHeaders, body |-> "healthy"]
    /\ last' = [NoReply EXCEPT !.op = "healthCheck", !.status = StatusOK]
    /\ UNCHANGED <<now, ticks, users, nextUid, emailTokens, resetTokens, sessions, nextSid,
                   issued, anon, procs, scn>>

\* the request came in as method and path with header hdr, the switch chose
\* handler, and the handler's (or AuthMiddleware's) answer went back out
Via(method, path, handler, hdr) ==
    /\ Route(path, method).handler = handler
    /\ http' = [method |-> method, path |-> path, trace |-> Trace(path, method, hdr),
                status |-> last'.status, headers |-> ResponseHeaders,
                body |-> last'.err]
    /\ UNCHANGED <<procs, scn>>

\* the Authorization headers tried on a preflight: none, and every one that
\* AuthMiddleware would let through
PreflightTries == {NoHeader} \cup {h \in Headers : AuthMiddleware(h, now).ok}

Fracs == 0 .. MaxFrac

RoomForAnon(f) == "CreateAnonymousSession" \in f \/ Len(anon) < MaxAnon

Gateway(faulty, L) ==
    \/ \E path \in Paths, h \in PreflightTries : Preflight(path, h)
    \/ \E path \in Paths, m \in Methods : NotFound(path, m)
    \/ healthCheck
    \/ \E e \in Emails, p \in Passwords, f \in Faults(faulty, RegisterCalls) :
          RoomToRegister(e, L) /\ Register(e, p, f) /\ Via("POST", "/register", "Register", NoHeader) /\ UNCHANGED anon
    \/ \E k \in 1 .. Len(emailTokens) + 1, f \in Faults(faulty, VerifyEmailCalls) :
          VerifyEmail(k, f) /\ Via("POST", "/verify-email", "VerifyEmail", NoHeader) /\ UNCHANGED anon
    \/ \E e \in Emails, p \in Passwords, f \in Faults(faulty, LoginCalls) :
          RoomToLogin(e, p, f, L) /\ Login(e, p, f) /\ Via("POST", "/login", "Login", NoHeader) /\ UNCHANGED anon
    \/ \E t \in Presentable, f \in Faults(faulty, RefreshCalls) :
          RefreshToken(t, f) /\ Via("POST", "/refresh", "RefreshToken", NoHeader) /\ UNCHANGED anon
    \/ \E h \in Headers : \E b \in LogoutBodies(h) :
          \E f \in Faults(faulty, {LogoutCall(LogoutSessionID(b))}) :
              Logout(h, b, f) /\ Via("POST", "/logout", "Logout", h) /\ UNCHANGED anon
    \/ \E h \in Headers : \E s \in BehindAuth(h, SessionIDs), f \in Faults(faulty, RevokeCalls) :
          RevokeSession(h, s, f) /\ Via("DELETE", "/sessions/:id", "RevokeSession", h) /\ UNCHANGED anon
    \/ \E e \in Emails, f \in Faults(faulty, ForgotCalls) :
          RoomToForget(e, f, L) /\ ForgotPassword(e, f) /\ Via("POST", "/forgot-password", "ForgotPassword", NoHeader)
              /\ UNCHANGED anon
    \/ \E k \in 1 .. Len(resetTokens) + 1, p \in Passwords, f \in Faults(faulty, ResetCalls) :
          ResetPassword(k, p, f) /\ Via("POST", "/reset-password", "ResetPassword", NoHeader) /\ UNCHANGED anon
    \/ \E h \in Headers : \E c, p \in PasswordsBehindAuth(h), f \in Faults(faulty, ChangeCalls) :
          ChangePassword(h, c, p, f) /\ Via("POST", "/change-password", "ChangePassword", h) /\ UNCHANGED anon
    \/ \E e \in Emails, f \in Faults(faulty, ResendCalls) :
          RoomToResend(e, f, L) /\ ResendVerification(e, f) /\ Via("POST", "/resend-verification", "ResendVerification", NoHeader)
              /\ UNCHANGED anon
    \/ \E h \in Headers, f \in Faults(TRUE, {"GetUser"}) :
          GetCurrentUser(h, f) /\ Via("GET", "/me", "GetCurrentUser", h) /\ UNCHANGED anon
    \/ \E h \in Headers, f \in Faults(TRUE, {"GetUserSessions"}) :
          \E path \in {"/sessions", "/sessions/:id"} :
              GetUserSessions(h, f) /\ Via("GET", path, "GetUserSessions", h) /\ UNCHANGED anon
    \/ \E f1, f2, f3 \in Fracs, f \in Faults(TRUE, AnonCalls) :
          RoomForAnon(f) /\ CreateAnonymousSession(f1, f2, f3, f)
              /\ Via("POST", "/anonymous", "CreateAnonymousSession", NoHeader)

\* one user behind the router, the clock stopped; the repository calls of the
\* handlers that only this specification serves may fail
NextGateway == Gateway(FALSE, Limits(GwUsers, GwSessions, GwResetTokens, GwEmailTokens))

SpecGateway == Init /\ [][NextGateway]_vars

\* ------------------------------------------------------- a client's session
\* One client, no faults: register, verify the email, log in, refresh twice
\* (each time with the refresh token it was last given, perhaps after its
\* access token ran out), log out of all sessions, and then try every refresh
\* token it was ever given.
Untouched == UNCHANGED <<procs, anon, http>>

ScnRegister ==
    /\ scn.step = 0
    /\ \E e \in Emails, p \in Passwords : Register(e, p, {})
    /\ scn' = [scn EXCEPT !.step = IF last'.err = Nil THEN 1 ELSE 0]
    /\ Untouched

ScnVerifyEmail ==
    /\ scn.step = 1
    /\ \E k \in 1 .. Len(emailTokens) : VerifyEmail(k, {})
    /\ scn' = [scn EXCEPT !.step = IF last'.err = Nil THEN 2 ELSE 1]
    /\ Untouched

ScnLogin ==
    /\ scn.step = 2
    /\ \E e \in Emails, p \in Passwords : Login(e, p, {})
    /\ scn' = IF last'.err = Nil THEN [step |-> 3, at |-> last'.at, rt |-> last'.rt] ELSE scn
    /\ Untouched

\* the access token runs out before the next refresh
ScnWait ==
    /\ scn.step \in {3, 4}
    /\ ticks < ScnTicks
    /\ Tick
    /\ now' = scn.at.exp
    /\ UNCHANGED scn
    /\ Untouched

ScnRefresh ==
    /\ scn.step \in {3, 4}
    /\ RefreshToken(scn.rt, {})
    /\ scn' = [step |-> scn.step + 1, at |-> last'.at, rt |-> last'.rt]
    /\ Untouched

ScnLogoutAll ==
    /\ scn.step = 5
    /\ Logout(Bearer(scn.at), NoBody, {})
    /\ scn' = [scn EXCEPT !.step = IF last'.err = Nil THEN 6 ELSE 5]
    /\ Untouched

ScnRefreshAfter ==
    /\ scn.step = 6
    /\ \E t \in {i \in issued : i.typ = TokenTypeRefresh} : RefreshToken(t, {})
    /\ UNCHANGED scn
    /\ Untouched

ScnWaitAfter ==
    /\ scn.step = 6
    /\ ticks < ScnTicks
    /\ Tick
    /\ UNCHANGED scn
    /\ Untouched

NextScenario ==
    \/ ScnRegister
    \/ ScnVerifyEmail
    \/ ScnLogin
    \/ ScnWait
    \/ ScnRefresh
    \/ ScnLogoutAll
    \/ ScnRefreshAfter
    \/ ScnWaitAfter

SpecScenario == Init /\ [][NextScenario]_vars

\* ================================================================== claims

\* C1: RefreshToken succeeds only when the session its token names exists, is
\* active and has not passed its expiresAt; for a session that is inactive or
\* expired it returns an error, hands back no tokens and issues none.
C1_RefreshNeedsUsableSession ==
    [][last'.op = "RefreshToken" =>
         LET sid == last'.tok.sid
             live == /\ sid \in DOMAIN sessions'
                     /\ sessions'[sid].isActive
                     /\ ~(now' > sessions'[sid].expiresAt)
         IN  /\ last'.err = Nil => live
             /\ ~live => /\ last'.err # Nil
                         /\ last'.at = NoToken /\ last'.rt = NoToken
                         /\ issued' = issued]_vars

\* a refresh token that is itself still valid is refused because its session,
\* still active, has passed its expiresAt
C1_Witness ==
    /\ last.op = "RefreshToken"
    /\ last.err = ErrTokenExpired
    /\ last.tok.sid \in DOMAIN sessions
    /\ sessions[last.tok.sid].isActive
    /\ now > sessions[last.tok.sid].expiresAt

\* C2: once ResetPassword has returned success for a user, every refresh token
\* issued to that user before it is refused by RefreshToken with TokenExpired.
C2_ResetRevokesRefreshTokens ==
    (last.op = "ResetPassword" /\ last.err = Nil) =>
        \A t \in issued :
            (t.typ = TokenTypeRefresh /\ t.sub = last.uid) => RefreshCheck(t, {}) = ErrTokenExpired

\* C3: a password-reset or email-verification token is consumed exactly once:
\* after ResetPassword / VerifyEmail has succeeded with it, a call with the
\* same token returns InvalidToken.
C3_TokenConsumedOnce ==
    /\ (last.op = "ResetPassword" /\ last.err = Nil) => ResetCheck(last.otok, {}) = ErrInvalidToken
    /\ (last.op = "VerifyEmail" /\ last.err = Nil) => VerifyCheck(last.otok, {}) = ErrInvalidToken

\* C4: of the ResetPassword calls racing on one token, at most one returns
\* success.
C4_OneResetWins ==
    \A p, q \in Procs :
        (/\ procs[p].pc = "done" /\ procs[p].err = Nil
         /\ procs[q].pc = "done" /\ procs[q].err = Nil
         /\ procs[p].token = procs[q].token) => p = q

\* C5: the token type is enforced both ways: RefreshToken refuses an access
\* token, and the bearer-token validation in front of the protected routes
\* refuses a refresh token.
C5_TokenTypeEnforced ==
    /\ (last.op = "RefreshToken" /\ last.tok.typ = TokenTypeAccess) => last.err = ErrInvalidToken
    /\ (last.op \in {"Logout", "RevokeSession"} /\ last.hdr.tok.typ = TokenTypeRefresh) =>
           last.status = StatusUnauthorized

\* C6: Login with the email of an existing user and a wrong password returns
\* the same InvalidCredentials as Login with an unknown email, whatever the
\* user's isActive and isVerified flags.
C6_LoginDoesNotTellUsersApart ==
    last.op = "Login" =>
        LET found == GetUserByEmail(last.email) IN
        /\ found.err = RepoUserNotFound =>
               last.err = ErrInvalidCredentials /\ last.status = StatusUnauthorized
        /\ (found.err = RepoOK /\ ~CompareHashAndPassword(users[found.id].hash, last.password)) =>
               last.err = ErrInvalidCredentials /\ last.status = StatusUnauthorized

\* C7: RevokeSession for a session that belongs to another user returns
\* SessionNotFound, the error for a session id that does not exist, and
\* changes no session.
C7_RevokeForeignSession ==
    [][(last'.op = "RevokeSession" /\ last'.uid # 0 /\ last'.sid # 0) =>
         /\ (last'.sid \notin DOMAIN sessions \/ sessions[last'.sid].userID # last'.uid) =>
                /\ last'.err = ErrSessionNotFound
                /\ last'.status = StatusNotFound
                /\ sessions' = sessions]_vars

\* user A asks to revoke a session of user B, is told it was not found, and
\* the session is still active
C7_Witness ==
    /\ last.op = "RevokeSession"
    /\ last.err = ErrSessionNotFound
    /\ last.sid \in DOMAIN sessions
    /\ last.uid \in DOMAIN users
    /\ sessions[last.sid].userID # last.uid
    /\ sessions[last.sid].isActive

\* C8: RefreshToken with the refresh token a Login has just returned succeeds;
\* the new access token and the new refresh token carry the session id of the
\* login, and no Session record is created.
C8_RefreshAfterLogin ==
    [][(/\ last.op = "Login" /\ last.err = Nil
        /\ last'.op = "RefreshToken" /\ last'.tok = last.rt) =>
         /\ last'.err = Nil
         /\ last'.status = StatusOK
         /\ last'.at.typ = TokenTypeAccess /\ last'.at.sid = last.sid
         /\ last'.rt.typ = TokenTypeRefresh /\ last'.rt.sid = last.sid
         /\ {last'.at, last'.rt} \subseteq issued'
         /\ sessions' = sessions
         /\ nextSid' = nextSid]_vars

\* a refresh has succeeded and the tokens it returned carry the session id of
\* the token it was given
C8_Witness ==
    /\ last.op = "RefreshToken"
    /\ last.err = Nil
    /\ last.tok \in issued
    /\ last.at.sid = last.tok.sid
    /\ last.rt.sid = last.tok.sid
    /\ last.tok.sid \in DOMAIN sessions

\* C9: register, verify, log in, refresh twice, log out of all sessions: both
\* refreshes succeed, and after the logout RefreshToken fails with every
\* refresh token issued along the way.
C9_SessionLifecycle ==
    /\ (scn.step \in {4, 5} /\ last.op = "RefreshToken") =>
           /\ last.err = Nil
           /\ last.rt.typ = TokenTypeRefresh
           /\ last.rt.sid = last.tok.sid
    /\ (scn.step = 6 /\ last.op = "RefreshToken") =>
           /\ last.err # Nil
           /\ last.at = NoToken /\ last.rt = NoToken

\* after the logout-all the client presents the refresh token of its second
\* refresh and is refused
C9_Witness ==
    /\ scn.step = 6
    /\ last.op = "RefreshToken"
    /\ last.tok = scn.rt
    /\ last.err = ErrTokenExpired

\* C10: Logout with a session id deactivates that session and changes no
\* other; Logout without one deactivates every session of the user and no
\* session of any other user.
C10_LogoutFrame ==
    [][(last'.op = "Logout" /\ last'.err = Nil) =>
         /\ DOMAIN sessions' = DOMAIN sessions
         /\ \A s \in DOMAIN sessions :
                IF last'.sid # 0
                THEN IF s = last'.sid
                     THEN sessions'[s] = [sessions[s] EXCEPT !.isActive = FALSE]
                     ELSE sessions'[s] = sessions[s]
                ELSE IF sessions[s].userID = last'.uid
                     THEN sessions'[s] = [sessions[s] EXCEPT !.isActive = FALSE]
                     ELSE sessions'[s] = sessions[s]]_vars

\* a logout named one session of a user who has another: the named one is
\* inactive, the other is still active
C10_Witness ==
    /\ last.op = "Logout"
    /\ last.err = Nil
    /\ last.sid \in DOMAIN sessions
    /\ ~sessions[last.sid].isActive
    /\ \E s \in DOMAIN sessions :
           s # last.sid /\ sessions[s].userID = sessions[last.sid].userID /\ sessions[s].isActive

\* C11: Logout is idempotent: a Logout that names only sessions already
\* inactive returns success and leaves every store as it was, so a second
\* Logout ends in the state and with the result of the first.
C11_LogoutIdempotent ==
    [][(/\ last'.op = "Logout"
        /\ AuthMiddleware(last'.hdr, now).ok
        /\ AlreadyLoggedOut(last'.uid, last'.sid)) =>
         /\ last'.err = Nil
         /\ last'.status = StatusOK
         /\ sessions' = sessions
         /\ users' = users /\ issued' = issued]_vars

\* a user with two sessions, both already inactive, logs out of one of them
\* again and is answered 200
C11_Witness ==
    /\ last.op = "Logout"
    /\ last.stale
    /\ last.status = StatusOK
    /\ last.sid \in DOMAIN sessions
    /\ \E s \in DOMAIN sessions : s # last.sid /\ sessions[s].userID = sessions[last.sid].userID

\* C12: Logout invalidates the user's tokens: once a Logout of a session has
\* succeeded, an access token issued under that session is refused (401) by
\* every protected route, although its own exp has not elapsed.
C12_LogoutInvalidatesAccessTokens ==
    [][(/\ last.op = "Logout" /\ last.err = Nil
        /\ last'.op \in {"Logout", "RevokeSession", "ChangePassword"}
        /\ last'.hdr.scheme = "Bearer"
        /\ last'.hdr.tok.typ = TokenTypeAccess
        /\ JwtValid(last'.hdr.tok, now)
        /\ last'.hdr.tok.sid \in DOMAIN sessions
        /\ ~sessions[last'.hdr.tok.sid].isActive
        /\ \/ last.sid = last'.hdr.tok.sid
           \/ last.sid = 0 /\ last.uid = last'.hdr.tok.sub) =>
         last'.status = StatusUnauthorized]_vars

\* C13: RefreshToken with a well-formed refresh token returns TokenExpired
\* when the session it names is inactive or past expiresAt, and InvalidToken
\* when the token's user no longer exists or has isActive = FALSE.
C13_RefreshErrors ==
    (/\ last.op = "RefreshToken"
     /\ last.fail = {}
     /\ parseRefreshToken(last.tok, now).err = Nil) =>
        LET u == last.tok.sub
            sid == last.tok.sid
        IN  IF u \notin DOMAIN users \/ ~users[u].isActive
            THEN last.err = ErrInvalidToken /\ last.status = StatusUnauthorized
            ELSE (/\ sid \in DOMAIN sessions
                  /\ (~sessions[sid].isActive \/ now > sessions[sid].expiresAt)) =>
                     last.err = ErrTokenExpired /\ last.status = StatusUnauthorized

\* C14: unverified users cannot log in: no Session exists and no access or
\* refresh token has been issued for a user whose email was never verified;
\* Register creates no session and issues no token; Login succeeds only for a
\* user who is verified and active.
C14_UnverifiedCannotLogIn ==
    [][/\ \A s \in DOMAIN sessions' :
              /\ sessions'[s].userID \in DOMAIN users'
              /\ users'[sessions'[s].userID].isVerified
       /\ \A t \in issued' : t.sub \in DOMAIN users' /\ users'[t.sub].isVerified
       /\ last'.op = "Register" => sessions' = sessions /\ issued' = issued
       /\ (last'.op = "Login" /\ last'.err = Nil) =>
              /\ users[last'.uid].isVerified
              /\ users[last'.uid].isActive]_vars

\* a registered but unverified user presents the right password and is refused
C14_Witness ==
    /\ last.op = "Login"
    /\ last.err = ErrUserNotVerified
    /\ last.status = StatusForbidden
    /\ \E u \in DOMAIN users :
           /\ users[u].email = last.email
           /\ CompareHashAndPassword(users[u].hash, last.password)
           /\ ~users[u].isVerified
    /\ sessions = <<>>
    /\ issued = {}

\* C15: a successful Login creates exactly one new Session: active, owned by
\* the user, expiring 7 days after its creation, every other session left as
\* it was; the access token and the refresh token it returns both carry the
\* new session's id.
C15_LoginCreatesOneSession ==
    [][(last'.op = "Login" /\ last'.err = Nil) =>
         LET sid == last'.sid IN
         /\ sid \notin DOMAIN sessions
         /\ DOMAIN sessions' = DOMAIN sessions \cup {sid}
         /\ \A s \in DOMAIN sessions : sessions'[s] = sessions[s]
         /\ sessions'[sid].userID = last'.uid
         /\ sessions'[sid].isActive
         /\ sessions'[sid].createdAt = now
         /\ sessions'[sid].expiresAt = sessions'[sid].createdAt + DefaultRefreshDuration
         /\ users[last'.uid].email = last'.email
         /\ last'.at.typ = TokenTypeAccess /\ last'.at.sid = sid /\ last'.at.sub = last'.uid
         /\ last'.rt.typ = TokenTypeRefresh /\ last'.rt.sid = sid /\ last'.rt.sub = last'.uid
         /\ issued' = issued \cup {last'.at, last'.rt}]_vars

\* a login some time after the service started: its session expires 7 days
\* after that login
C15_Witness ==
    /\ last.op = "Login"
    /\ last.err = Nil
    /\ now > 0
    /\ last.sid \in DOMAIN sessions
    /\ sessions[last.sid].createdAt = now
    /\ sessions[last.sid].expiresAt = now + DefaultRefreshDuration

\* C16: Register with an email a stored user already holds fails with
\* UserAlreadyExists (409) and changes nothing: no second user, the stored
\* password hash untouched, no verification token minted.  Otherwise it stores
\* one new user with isVerified = FALSE and isActive = TRUE.
C16_RegisterDuplicate ==
    [][last'.op = "Register" =>
         IF \E u \in DOMAIN users : users[u].email = last'.email
         THEN /\ last'.err = ErrUserAlreadyExists
              /\ last'.status = StatusConflict
              /\ users' = users
              /\ nextUid' = nextUid
              /\ emailTokens' = emailTokens
         ELSE /\ last'.err = Nil
              /\ last'.status = StatusCreated
              /\ last'.uid \notin DOMAIN users
              /\ DOMAIN users' = DOMAIN users \cup {last'.uid}
              /\ \A u \in DOMAIN users : users'[u] = users[u]
              /\ users'[last'.uid].email = last'.email
              /\ CompareHashAndPassword(users'[last'.uid].hash, last'.password)
              /\ ~users'[last'.uid].isVerified
              /\ users'[last'.uid].isActive]_vars

\* a second registration of a taken email, with another password, is refused
\* and the stored hash still verifies the first password only
C16_Witness ==
    /\ last.op = "Register"
    /\ last.err = ErrUserAlreadyExists
    /\ Cardinality({u \in DOMAIN users : users[u].email = last.email}) = 1
    /\ \E u \in DOMAIN users :
           /\ users[u].email = last.email
           /\ ~CompareHashAndPassword(users[u].hash, last.password)

\* C17: ForgotPassword returns success for every email: the service result and
\* the HTTP status of a request are the ones the same request would have had
\* for any other email, registered or not, and they are success.
C17_ForgotPasswordUniform ==
    last.op = "ForgotPassword" =>
        /\ last.status = StatusOK
        /\ \A e \in Emails : ForgotCheck(e, last.fail) = last.err
        /\ "GetUserByEmail" \notin last.fail => last.err = Nil

\* C18: a failure of the step that dispatches the verification mail never
\* fails the surrounding operation: a Register or ResendVerification request
\* in which only that step fails returns what the same request returns when
\* the step succeeds.
C18_DispatchFailureSwallowed ==
    [][last'.fail = {"CreateEmailVerificationToken"} =>
         /\ last'.op = "Register" =>
                last'.err = (IF GetUserByEmail(last'.email).err = RepoOK
                             THEN ErrUserAlreadyExists ELSE Nil)
         /\ last'.op = "ResendVerification" =>
                last'.err = ResendCheck(last'.email, {})]_vars

\* C19: ResetPassword with a token that is unknown, already used or expired
\* fails with InvalidToken and changes nothing: users, reset tokens and
\* sessions are as before.  A token is already used when the store has it
\* marked used or when the previous request was a successful ResetPassword
\* with it.
C19_InvalidResetTokenChangesNothing ==
    [][(/\ last'.op = "ResetPassword"
        /\ "VerifyPasswordResetToken" \notin last'.fail
        /\ \/ last'.otok \notin DOMAIN resetTokens
           \/ resetTokens[last'.otok].used
           \/ ~(now < resetTokens[last'.otok].expiresAt)
           \/ (last.op = "ResetPassword" /\ last.err = Nil /\ last.otok = last'.otok))
       => /\ last'.err = ErrInvalidToken
          /\ last'.status = StatusBadRequest
          /\ users' = users
          /\ resetTokens' = resetTokens
          /\ sessions' = sessions]_vars

\* C20: ChangePassword changes the stored password hash only after
\* currentPassword verified against the stored hash, and then only the
\* caller's hash, to the hash of newPassword; with a currentPassword that does
\* not verify it fails with InvalidCredentials (400) and no hash changes.
C20_ChangePasswordVerifiesCurrent ==
    [][last'.op = "ChangePassword" =>
         LET mw == AuthMiddleware(last'.hdr, now)
             uid == last'.uid
         IN  /\ users' # users =>
                    /\ mw.ok /\ uid = mw.userID /\ uid \in DOMAIN users
                    /\ CompareHashAndPassword(users[uid].hash, last'.password)
                    /\ last'.err = Nil
                    /\ users' = [users EXCEPT ![uid].hash = hashPassword(last'.newPassword)]
             /\ (/\ mw.ok /\ uid \in DOMAIN users
                 /\ ~CompareHashAndPassword(users[uid].hash, last'.password)) =>
                    /\ last'.err = ErrInvalidCredentials
                    /\ last'.status = StatusBadRequest
                    /\ users' = users]_vars

\* an authenticated caller gave a current password that does not verify and
\* was refused; the stored hash is not the one of the requested new password
C20_Witness ==
    /\ last.op = "ChangePassword"
    /\ last.err = ErrInvalidCredentials
    /\ last.status = StatusBadRequest
    /\ last.fail = {}
    /\ last.uid \in DOMAIN users
    /\ ~CompareHashAndPassword(users[last.uid].hash, last.password)
    /\ ~CompareHashAndPassword(users[last.uid].hash, last.newPassword)

\* C21: a successful ChangePassword leaves every session unchanged: the
\* sessions active before it are active after it, no token is issued or
\* withdrawn, and every refresh token issued before it refreshes afterwards
\* exactly as it did before.
C21_ChangePasswordKeepsSessions ==
    [][(last'.op = "ChangePassword" /\ last'.err = Nil) =>
         /\ sessions' = sessions
         /\ issued' = issued
         /\ \A t \in issued : RefreshCheck(t, {})' = RefreshCheck(t, {})]_vars

\* the password was changed while the user held an active session whose
\* refresh token still refreshes
C21_Witness ==
    /\ last.op = "ChangePassword"
    /\ last.err = Nil
    /\ last.newPassword # last.password
    /\ CompareHashAndPassword(users[last.uid].hash, last.newPassword)
    /\ \E t \in issued :
           /\ t.typ = TokenTypeRefresh
           /\ t.sub = last.uid
           /\ t.sid \in DOMAIN sessions
           /\ sessions[t.sid].isActive
           /\ RefreshCheck(t, {}) = Nil

\* C22: VerifyEmail with an unused, unexpired verification token, when it
\* returns success, has set isVerified for the token's user and marked the
\* token used; with an unknown, used or expired token it fails with
\* InvalidToken and changes neither users nor tokens.
C22_VerifyEmailEffects ==
    [][(last'.op = "VerifyEmail" /\ "VerifyEmailToken" \notin last'.fail) =>
         LET k == last'.otok IN
         IF VerifyEmailToken(k, now).err = RepoOK
         THEN last'.err = Nil =>
                  /\ users'[emailTokens[k].userID].isVerified
                  /\ \A u \in DOMAIN users \ {emailTokens[k].userID} : users'[u] = users[u]
                  /\ emailTokens'[k].used
         ELSE /\ last'.err = ErrInvalidToken
              /\ last'.status = StatusBadRequest
              /\ users' = users
              /\ emailTokens' = emailTokens]_vars

\* C23: ResendVerification for an email with no user, or for a user that is
\* already verified, returns success and changes nothing; a verification
\* token is minted only for an existing unverified user, and then it is one
\* fresh unused token for that user, valid for DefaultVerifyTokenDuration.
C23_ResendOnlyForUnverified ==
    [][last'.op = "ResendVerification" =>
         LET found == GetUserByEmail(last'.email)
             unverified == found.err = RepoOK /\ ~users[found.id].isVerified
         IN  /\ last'.status = StatusOK
             /\ UNCHANGED <<users, resetTokens, sessions, issued>>
             /\ (~unverified /\ "GetUserByEmail" \notin last'.fail) =>
                    last'.err = Nil /\ emailTokens' = emailTokens
             /\ emailTokens' # emailTokens =>
                    /\ unverified
                    /\ last'.err = Nil
                    /\ emailTokens' = Append(emailTokens,
                           [userID |-> found.id, expiresAt |-> now + DefaultVerifyTokenDuration,
                            used |-> FALSE, createdAt |-> now])
             /\ (unverified /\ last'.fail = {}) => Len(emailTokens') = Len(emailTokens) + 1]_vars

\* a resend for a user who is already verified: success, and no token minted
C23_Witness ==
    /\ last.op = "ResendVerification"
    /\ last.err = Nil
    /\ last.status = StatusOK
    /\ last.otok = 0
    /\ \E u \in DOMAIN users : users[u].email = last.email /\ users[u].isVerified
    /\ \A k \in DOMAIN emailTokens : emailTokens[k].used

\* C24: CreateAnonymousSession always succeeds: every call returns no error
\* (201) and a newly stored AnonymousSession with an anonymous-typed token.
C24_AnonymousAlwaysSucceeds ==
    last.op = "CreateAnonymousSession" =>
        /\ last.err = Nil
        /\ last.status = StatusCreated
        /\ last.sid = Len(anon)
        /\ anon[last.sid].token = last.tok
        /\ last.tok.typ = TokenTypeAnonymous

\* C25: the token issued by CreateAnonymousSession expires exactly at the
\* session's createdAt + 24h: the token's exp, the session's expiresAt and
\* createdAt + 24h are one instant, and from that instant on the token is
\* rejected as expired.
C25_AnonymousExpiryExact ==
    \A k \in DOMAIN anon :
        /\ anon[k].expiresAt = Add(anon[k].createdAt, DefaultAnonymousDuration)
        /\ Instant(anon[k].token.exp, 0) = anon[k].expiresAt
        /\ ~JwtValid(anon[k].token, anon[k].token.exp)

\* the position of a stage in a trace, 0 if it was not entered
Position(trace, stage) ==
    IF \E i \in DOMAIN trace : trace[i] = stage
    THEN CHOOSE i \in DOMAIN trace : trace[i] = stage
    ELSE 0

\* C26: on every protected route (logout, change-password, me, list sessions,
\* revoke session) the handler runs only when the request carries an
\* Authorization: Bearer header with a token that is correctly signed,
\* unexpired and names a user; when the header is absent or not a Bearer header
\* the response is 401, the handler does not run and no repository state changes.
C26_ProtectedRoutesNeedBearer ==
    [][(http'.method # "" /\ http' # http) =>
         LET r == Route(http'.path, http'.method)
             h == last'.hdr
         IN  /\ r.handler \in {"Logout", "ChangePassword", "GetCurrentUser", "GetUserSessions",
                               "RevokeSession"} => r.protected
             /\ r.protected =>
                    /\ Position(http'.trace, r.handler) > 0 =>
                           /\ h.scheme = "Bearer"
                           /\ h.tok.sig = Secret /\ now < h.tok.exp /\ h.tok.sub # 0
                           /\ Position(http'.trace, "AuthMiddleware") = Position(http'.trace, r.handler) - 1
                    /\ h.scheme # "Bearer" =>
                           /\ http'.status = StatusUnauthorized
                           /\ Position(http'.trace, r.handler) = 0
                           /\ UNCHANGED <<users, sessions, emailTokens, resetTokens, anon, issued>>
                    /\ Position(http'.trace, r.handler) = 0 =>
                           UNCHANGED <<users, sessions, emailTokens, resetTokens, anon, issued>>]_vars

\* a logout without a Bearer header was answered 401 while the user's session
\* stayed active
C26_Witness ==
    /\ http.path = "/logout"
    /\ http.method = "POST"
    /\ last.hdr.scheme # "Bearer"
    /\ http.status = StatusUnauthorized
    /\ http.trace = <<"CORS", "RequestLogging", "RateLimit", "router", "AuthMiddleware">>
    /\ \E s \in DOMAIN sessions : sessions[s].isActive

\* C27: token validation failures are uniform: a request that fails the
\* bearer-token validation of a protected route gets the 401 body every other
\* failing Authorization header would get, and a refresh token that fails
\* validation gets InvalidToken, whichever step failed.
C27_UniformTokenFailures ==
    /\ (/\ last.op \in {"Logout", "ChangePassword", "GetCurrentUser", "GetUserSessions",
                        "RevokeSession"}
        /\ ~AuthMiddleware(last.hdr, now).ok) =>
           /\ last.status = StatusUnauthorized
           /\ \A h \in Headers :
                  ~AuthMiddleware(h, now).ok => AuthMiddleware(h, now).body = last.err
    /\ (last.op = "RefreshToken" /\ parseRefreshToken(last.tok, now).err # Nil) =>
           last.err = ErrInvalidToken /\ last.status = StatusUnauthorized

\* C28: every request that is not a preflight enters CORS, request logging,
\* the rate-limit hook and the route dispatch, in that order; on a protected
\* route the bearer-token validation comes next and the handler after it, on
\* any other route the handler comes next; nothing else is entered.
C28_PipelineOrder ==
    http.method \notin {"", "OPTIONS"} =>
        LET r == Route(http.path, http.method)
            n == Len(http.trace)
        IN  /\ n >= 4
            /\ SubSeq(http.trace, 1, 4) = <<"CORS", "RequestLogging", "RateLimit", "router">>
            /\ IF r.handler = "" THEN n = 4
               ELSE IF r.protected
               THEN /\ n \in {5, 6}
                    /\ http.trace[5] = "AuthMiddleware"
                    /\ n = 6 => http.trace[6] = r.handler
               ELSE n = 5 /\ http.trace[5] = r.handler

\* a password change went through all six stages
C28_Witness ==
    /\ http.method = "POST"
    /\ http.path = "/change-password"
    /\ http.status = StatusOK
    /\ http.trace = <<"CORS", "RequestLogging", "RateLimit", "router", "AuthMiddleware",
                      "ChangePassword">>

\* C29: an OPTIONS request to any path, protected or not, is answered by the
\* CORS stage with status 200 and the CORS headers; logging, the rate-limit
\* hook, token validation and the handlers are not entered and no state changes.
C29_PreflightShortCircuit ==
    [][http'.method = "OPTIONS" =>
         /\ http'.trace = <<"CORS">>
         /\ http'.status = StatusOK
         /\ {"Access-Control-Allow-Origin", "Access-Control-Allow-Methods",
             "Access-Control-Allow-Headers"} \subseteq http'.headers
         /\ "X-Correlation-ID" \notin http'.headers
         /\ UNCHANGED <<now, users, nextUid, sessions, nextSid, emailTokens, resetTokens, anon,
                        issued>>]_vars

\* a preflight to a protected path, sent with a token the bearer check would
\* accept, while the user has an active session
C29_Witness ==
    /\ http.method = "OPTIONS"
    /\ http.path = "/logout"
    /\ http.status = StatusOK
    /\ last.op = "OPTIONS"
    /\ AuthMiddleware(last.hdr, now).ok
    /\ \E s \in DOMAIN sessions : sessions[s].isActive

\* C30: on every endpoint the response status follows the service error:
\* InvalidCredentials, InvalidToken and TokenExpired give 401, UserDisabled and
\* UserNotVerified 403, SessionNotFound 404, UserAlreadyExists 409, and 500 is
\* given only for an unexpected repository failure.
C30_StatusMapping ==
    /\ last.err \in {ErrInvalidCredentials, ErrInvalidToken, ErrTokenExpired} =>
           last.status = StatusUnauthorized
    /\ last.err \in {ErrUserDisabled, ErrUserNotVerified} => last.status = StatusForbidden
    /\ last.err = ErrSessionNotFound => last.status = StatusNotFound
    /\ last.err = ErrUserAlreadyExists => last.status = StatusConflict
    /\ last.status = StatusInternalServerError => last.err = Internal

\* C31: a session that is inactive is never active again, whatever request or
\* environment step follows (it stays inactive for as long as it is stored),
\* and every successful Login stores its session under an id that no stored
\* session had before: the store gains exactly that id.
C31_TerminalStatesAbsorbing ==
    [][/\ \A s \in DOMAIN sessions :
              (~sessions[s].isActive /\ s \in DOMAIN sessions') => ~sessions'[s].isActive
       /\ (last'.op = "Login" /\ last'.err = Nil) =>
              /\ last'.sid \notin DOMAIN sessions
              /\ DOMAIN sessions' = DOMAIN sessions \cup {last'.sid}
              /\ \A s \in DOMAIN sessions : sessions'[s] = sessions[s]]_vars

\* a Login has just succeeded for a user whose earlier session is logged out:
\* the new session is active under its own id, the old one still inactive
C31_Witness ==
    /\ last.op = "Login"
    /\ last.err = Nil
    /\ last.sid \in DOMAIN sessions
    /\ sessions[last.sid].isActive
    /\ \E s \in DOMAIN sessions :
           /\ s # last.sid
           /\ sessions[s].userID = last.uid
           /\ ~sessions[s].isActive

\* the repository call that request r was set to fail on is one the operation
\* makes, given the stored state it runs in: every call before it succeeded
\* and no check before it returned
FailureMet(r) ==
    LET found == GetUserByEmail(r.email)
        mw == AuthMiddleware(r.hdr, now)
        claims == parseRefreshToken(r.tok, now)
        stored == found.err = RepoOK
        mayLogin == stored /\ users[found.id].isActive /\ users[found.id].isVerified
    IN  CASE r.op = "Register" ->
                 r.fail = {"GetUserByEmail"} \/ (r.fail # {} /\ ~stored)
          [] r.op = "Login" ->
                 \/ r.fail = {"GetUserByEmail"}
                 \/ r.fail = {"GetPasswordHash"} /\ mayLogin
                 \/ /\ r.fail \in {{"CreateSession"}, {"UpdateLastLogin"}}
                    /\ mayLogin
                    /\ CompareHashAndPassword(users[found.id].hash, r.password)
          [] r.op = "VerifyEmail" ->
                 \/ r.fail = {"VerifyEmailToken"}
                 \/ r.fail # {} /\ VerifyEmailToken(r.otok, now).err = RepoOK
          [] r.op = "ResetPassword" ->
                 \/ r.fail = {"VerifyPasswordResetToken"}
                 \/ r.fail # {} /\ VerifyPasswordResetToken(r.otok, now).err = RepoOK
          [] r.op = "RefreshToken" ->
                 \/ r.fail = {"GetUser"} /\ claims.err = Nil
                 \/ r.fail = {"GetSession"} /\ RefreshCheck(r.tok, {"GetSession"}) = Internal
          [] r.op = "Logout" -> r.fail # {} /\ mw.ok
          [] r.op = "RevokeSession" ->
                 \/ r.fail = {"GetSession"} /\ mw.ok /\ r.sid # 0
                 \/ r.fail = {"DeactivateSession"} /\ mw.ok /\ r.sid \in DOMAIN sessions
                      /\ sessions[r.sid].userID = mw.userID
          [] r.op = "ForgotPassword" ->
                 r.fail = {"GetUserByEmail"} \/ (r.fail # {} /\ stored)
          [] r.op = "ChangePassword" ->
                 \/ r.fail = {"GetPasswordHash"} /\ mw.ok
                 \/ r.fail = {"UpdatePassword"} /\ mw.ok /\ mw.userID \in DOMAIN users
                      /\ CompareHashAndPassword(users[mw.userID].hash, r.password)
          [] r.op = "ResendVerification" ->
                 \/ r.fail = {"GetUserByEmail"}
                 \/ r.fail # {} /\ stored /\ ~users[found.id].isVerified
          [] OTHER -> FALSE

\* C32: a request that meets a failing repository call returns the internal
\* error (the wrapped error, no domain error and not success) and is answered
\* 500 where the handler shows the service result; in particular a Login or a
\* ChangePassword whose read of the stored password hash fails.
C32_RepositoryFailuresAreInternal ==
    [][FailureMet(last') =>
          /\ last'.err = Internal
          /\ last'.op \notin {"ForgotPassword", "ResendVerification"} =>
                 last'.status = StatusInternalServerError]_vars

C34_LogoutOwnSessionOnly ==
    [][(/\ last'.op = "Logout" /\ last'.uid # 0
        /\ last'.sid \in DOMAIN sessions
        /\ sessions[last'.sid].userID # last'.uid) => sessions' = sessions]_vars

\* C35: whenever ResetPassword has returned success, the token it was given is
\* marked used and every session of the token's user is inactive, also when a
\* repository write of the operation has failed.
C35_ResetSuccessIsComplete ==
    (last.op = "ResetPassword" /\ last.err = Nil) =>
        /\ last.otok \in DOMAIN resetTokens
        /\ resetTokens[last.otok].used
        /\ \A s \in DOMAIN sessions : sessions[s].userID = last.uid => ~sessions[s].isActive

\* the session a refresh token names is stored, active and unexpired
SessionOf(t, ss, at) == t.sid \in DOMAIN ss /\ SessionUsable(ss[t.sid], at)

\* C36 as stated: RefreshToken writes nothing, and after a successful refresh
\* the token that was presented is accepted again, whatever happens next, for
\* as long as its session is active and unexpired.
C36_PresentedTokenUsableWhileSessionIs ==
    [][/\ last'.op = "RefreshToken" =>
              /\ users' = users /\ sessions' = sessions
              /\ emailTokens' = emailTokens /\ resetTokens' = resetTokens
       /\ \A t \in {last.tok} :
              (/\ last.op = "RefreshToken" /\ last.err = Nil
               /\ SessionOf(t, sessions', now')) => RefreshCheck(t, {})' = Nil]_vars

\* C36, amended: RefreshToken writes nothing (no user, session or stored token
\* changes, whether it succeeds or fails), and after a successful refresh the
\* token that was presented is accepted again, whatever happens next, for as
\* long as the token itself has not expired, its user is stored and active,
\* and its session is active and unexpired.
C36_RefreshWritesNothing ==
    [][/\ last'.op = "RefreshToken" =>
              /\ users' = users /\ sessions' = sessions
              /\ emailTokens' = emailTokens /\ resetTokens' = resetTokens
       /\ \A t \in {last.tok} :
              (/\ last.op = "RefreshToken" /\ last.err = Nil
               /\ JwtValid(t, now')
               /\ t.sub \in DOMAIN users' /\ users'[t.sub].isActive
               /\ SessionOf(t, sessions', now')) => RefreshCheck(t, {})' = Nil]_vars

\* time has passed since the login, a refresh has just succeeded, and the token
\* it was given (not the one it returned) would be accepted once more
C36_Witness ==
    /\ last.op = "RefreshToken"
    /\ last.err = Nil
    /\ last.rt # last.tok
    /\ last.tok.sid \in DOMAIN sessions
    /\ now > sessions[last.tok.sid].createdAt
    /\ RefreshCheck(last.tok, {}) = Nil

\* C37: a session's expiresAt is fixed when the login creates it, at the login
\* time plus the refresh duration (7 days), and no later step moves it; a
\* RefreshToken succeeds only up to that instant, whatever the exp of the
\* refresh token it is given.
C37_RotationNeverExtendsLogin ==
    [][/\ \A s \in DOMAIN sessions \cap DOMAIN sessions' :
              /\ sessions'[s].createdAt = sessions[s].createdAt
              /\ sessions'[s].expiresAt = sessions[s].expiresAt
       /\ (last'.op = "Login" /\ last'.err = Nil) =>
              /\ sessions'[last'.sid].createdAt = now'
              /\ sessions'[last'.sid].expiresAt = now' + DefaultRefreshDuration
       /\ (last'.op = "RefreshToken" /\ last'.err = Nil) =>
              /\ last'.tok.sid \in DOMAIN sessions'
              /\ now' <= sessions'[last'.tok.sid].createdAt + DefaultRefreshDuration]_vars

\* a refresh token rotated some time after the login, itself still short of
\* its exp, is refused because the login's 7 days are over
C37_Witness ==
    /\ last.op = "RefreshToken"
    /\ last.err = ErrTokenExpired
    /\ last.tok.sid \in DOMAIN sessions
    /\ sessions[last.tok.sid].isActive
    /\ last.tok.iat > sessions[last.tok.sid].createdAt
    /\ JwtValid(last.tok, now)
    /\ last.tok.exp > sessions[last.tok.sid].expiresAt
    /\ now > sessions[last.tok.sid].createdAt + DefaultRefreshDuration

\* C38: no RefreshToken invocation returns success for a session that a
\* Logout, already returned, has deactivated; also not an invocation that
\* read the session while it was still active.
C38_NoRefreshAfterLogout ==
    [][\A p \in Procs :
          (/\ procs[p].pc # "done" /\ procs'[p].pc = "done"
           /\ procs'[p].tok # NoToken
           /\ procs'[p].err = Nil) =>
              /\ procs'[p].tok.sid \in DOMAIN sessions
              /\ sessions[procs'[p].tok.sid].isActive]_vars

\* C39: a Login that returns InvalidCredentials, UserDisabled or
\* UserNotVerified changes nothing: no session is stored, no session id is
\* used up, no token is issued or handed back, and no user record
\* (lastLoginAt included) or stored token changes.
C39_FailedLoginHasNoEffect ==
    [][(/\ last'.op = "Login"
        /\ last'.err \in {ErrInvalidCredentials, ErrUserDisabled, ErrUserNotVerified}) =>
          /\ sessions' = sessions /\ nextSid' = nextSid
          /\ issued' = issued
          /\ last'.at = NoToken /\ last'.rt = NoToken
          /\ users' = users
          /\ emailTokens' = emailTokens /\ resetTokens' = resetTokens]_vars

\* a verified, active user has just been refused for a wrong password (or an
\* unreadable hash): there is no session and no last login
C39_Witness ==
    /\ last.op = "Login"
    /\ last.err = ErrInvalidCredentials
    /\ GetUserByEmail(last.email).err = RepoOK
    /\ users[GetUserByEmail(last.email).id].isVerified
    /\ users[GetUserByEmail(last.email).id].isActive
    /\ users[GetUserByEmail(last.email).id].lastLoginAt = -1
    /\ sessions = <<>>
    /\ issued = {}

\* C40: POST /logout from an authenticated user deactivates all of the user's
\* sessions only when the request supplies no session id (with one it touches
\* no session but the one named), and a body that is not valid JSON is
\* answered 400 and deactivates no session.
C40_LogoutBody ==
    [][(last'.op = "Logout" /\ last'.uid # 0) =>
          /\ last'.sid # 0 =>
                 \A s \in DOMAIN sessions : s # last'.sid => sessions'[s] = sessions[s]
          /\ last'.body = "malformed" =>
                 /\ last'.status = StatusBadRequest
                 /\ sessions' = sessions]_vars

====
